---- MODULE Spec2Model ----
(***************************************************************************)
(* The DOM-to-snapshot pipeline and the identifier lifecycle of            *)
(* atomic-web-agent: generateAccessibilitySnapshot / enrichElement, the    *)
(* ElementLocatorRegistry, and the ClickByElementId / InputByElementId     *)
(* tools.  Every await of the source is a step boundary: what runs between *)
(* two awaits is one action.                                               *)
(***************************************************************************)
EXTENDS Integers, Sequences, FiniteSets, TLC

(***************************************************************************)
(* Bounds                                                                  *)
(***************************************************************************)
\* Tool calls the agent runtimes issue in one run, over all sessions.
MaxCalls == 3
\* Elements on the page of the other session when it takes a snapshot.
MaxOtherElems == 1
MaxApiCalls == 3
\* API calls on one session when the model answers every call at once.
MaxLifecycleCalls == 5

(***************************************************************************)
(* The page: a flat list of elements under <body>.                         *)
(***************************************************************************)
\* The elements a page may hold.  b1: a button; h1: a button with
\* display:none; d1, d2: two buttons that both carry id="dup"; i1: a text
\* input; i2: a disabled text input; p1: a paragraph of text.
Nodes == {"b1", "h1", "d1", "d2", "i1", "i2", "p1"}
NoNode == "none"

TagOf(n) == IF n \in {"i1", "i2"} THEN "input" ELSE IF n = "p1" THEN "p" ELSE "button"
IdAttrOf(n) == IF n \in {"d1", "d2"} THEN "dup" ELSE ""
Hidden(n) == n = "h1"
Disabled(n) == n = "i2"

\* The documents a page shows in the course of a run, each the list of its
\* elements in document order: a button with an id attribute, a paragraph
\* and a button; a hidden and a visible button; two buttons with the same
\* id attribute; a text input and a disabled one; an empty body.  A page
\* moves forward through them.
Doms ==
  << <<"d1", "p1", "b1">>, <<"h1", "b1">>, <<"d1", "d2">>, <<"i1", "i2">>, <<>> >>

(***************************************************************************)
(* The in-page extractor (page.evaluate callback)                          *)
(***************************************************************************)
\* Number of preceding siblings with the same node name.
SameTagBefore(d, p) == Cardinality({q \in 1..(p - 1) : TagOf(d[q]) = TagOf(d[p])})

\* getXPath: //*[@id="..."] when the element has an id attribute, otherwise
\* the path from the root; idx is the count of same-tag preceding siblings,
\* and the position suffix [idx+1] is written only when idx > 0.
getXPath(d, p) ==
  IF IdAttrOf(d[p]) # ""
  THEN [kind |-> "id", key |-> IdAttrOf(d[p]), idx |-> 0]
  ELSE [kind |-> "path", key |-> TagOf(d[p]), idx |-> SameTagBefore(d, p)]

\* An inferRole that never looks at the role attribute.
inferRoleByTag(tagName, type, explicitRole) ==
  IF tagName = "button" THEN "button"
  ELSE IF tagName = "a" THEN "link"
  ELSE IF tagName = "input" /\ type \in {"text", "email", "password"} THEN "textbox"
  ELSE IF tagName = "input" /\ type = "checkbox" THEN "checkbox"
  ELSE IF tagName = "input" /\ type = "radio" THEN "radio"
  ELSE IF tagName = "input" /\ type = "search" THEN "searchbox"
  ELSE IF tagName = "input" /\ type = "submit" THEN "button"
  ELSE IF tagName = "textarea" THEN "textbox"
  ELSE IF tagName = "select" THEN "combobox"
  ELSE IF tagName \in {"form", "main", "dialog"} THEN tagName
  ELSE IF tagName = "nav" THEN "navigation"
  ELSE "generic"

\* inferRole on the tag name, the type property and the role attribute of
\* an element ("" for an attribute that is missing or empty): the explicit
\* role first, then the tag and the input type; an input of any other type
\* falls through to "generic".
inferRoleOf(tagName, type, explicitRole) ==
  IF explicitRole # "" THEN explicitRole
  ELSE IF tagName = "button" THEN "button"
  ELSE IF tagName = "a" THEN "link"
  ELSE IF tagName = "input" /\ type \in {"text", "email", "password"} THEN "textbox"
  ELSE IF tagName = "input" /\ type = "checkbox" THEN "checkbox"
  ELSE IF tagName = "input" /\ type = "radio" THEN "radio"
  ELSE IF tagName = "input" /\ type = "search" THEN "searchbox"
  ELSE IF tagName = "input" /\ type = "submit" THEN "button"
  ELSE IF tagName = "textarea" THEN "textbox"
  ELSE IF tagName = "select" THEN "combobox"
  ELSE IF tagName \in {"form", "main", "dialog"} THEN tagName
  ELSE IF tagName = "nav" THEN "navigation"
  ELSE "generic"

\* inferRole for the elements of Nodes: text inputs, no role attribute.
inferRole(n) == inferRoleOf(TagOf(n), "text", "")

\* The selector list of the extractor, as far as it selects by tag name.
Selectors == {"button", "input"}
\* document.querySelectorAll(selectors.join(", ")): the positions of the
\* selected elements in document order.
Selected(d) ==
  SelectSeq([p \in DOMAIN d |-> p], LAMBDA p : TagOf(d[p]) \in Selectors)

\* The descriptors page.evaluate returns: one per selected element, in
\* document order.
Extract(d) ==
  [k \in DOMAIN Selected(d) |->
     [xpath |-> getXPath(d, Selected(d)[k]), role |-> inferRole(d[Selected(d)[k]])]]

(***************************************************************************)
(* The driver: locators are lazy, they are resolved against the document   *)
(* at the moment an operation on them runs.                                *)
(***************************************************************************)
\* Positions of the elements an XPath selects.  A path step without a
\* position suffix selects every same-tag child.
Matches(xp, d) ==
  {q \in DOMAIN d :
     IF xp.kind = "id"
     THEN IdAttrOf(d[q]) = xp.key
     ELSE TagOf(d[q]) = xp.key /\ (xp.idx = 0 \/ SameTagBefore(d, q) = xp.idx)}

LocatorCount(xp, d) == Cardinality(Matches(xp, d))

\* locator.first(): the first selected element in document order.
LocatorFirst(xp, d) ==
  IF Matches(xp, d) = {} THEN NoNode
  ELSE d[CHOOSE q \in Matches(xp, d) : \A r \in Matches(xp, d) : q <= r]

\* isVisible(): "no" when nothing is selected or the element is not rendered.
DriverIsVisible(xp, d) ==
  IF LocatorFirst(xp, d) # NoNode /\ ~Hidden(LocatorFirst(xp, d)) THEN "yes" ELSE "no"

\* isEditable(): "yes" / "no" for an enabled / disabled input; it throws for
\* an element that is no input at all and when nothing is selected.
DriverIsEditable(xp, d) ==
  LET n == LocatorFirst(xp, d) IN
  IF n = NoNode \/ TagOf(n) # "input" THEN "error"
  ELSE IF Disabled(n) THEN "no" ELSE "yes"

\* click({timeout}) can succeed only on a rendered element.
DriverCanClick(xp, d) == LocatorFirst(xp, d) # NoNode /\ ~Hidden(LocatorFirst(xp, d))

\* fill(text, {timeout}) can succeed only on a rendered, enabled input.
DriverCanFill(xp, d) == DriverIsVisible(xp, d) = "yes" /\ DriverIsEditable(xp, d) = "yes"

\* boundingBox(): null when nothing is selected or the element is not
\* rendered.  The text input i1 lies below the fold.
NoBox == [x |-> 0, y |-> 0, width |-> 0, height |-> 0, null |-> TRUE]
DriverBoundingBox(xp, d) ==
  LET n == LocatorFirst(xp, d) IN
  IF n = NoNode \/ Hidden(n) THEN NoBox
  ELSE [x |-> 10, y |-> IF n = "i1" THEN 790 ELSE 10, width |-> 100, height |-> 30,
        null |-> FALSE]

\* page.viewportSize() || { width: 1280, height: 800 }
ViewportWidth == 1280
ViewportHeight == 800

\* A viewport test that rejects a box touching the right or bottom edge.
IsInViewportStrict(box) ==
  IF box.null THEN FALSE
  ELSE /\ box.x >= 0
       /\ box.y >= 0
       /\ box.x + box.width < ViewportWidth
       /\ box.y + box.height < ViewportHeight

\* The viewport test of enrichElement: false without a bounding box.
IsInViewport(box) ==
  IF box.null THEN FALSE
  ELSE /\ box.x >= 0
       /\ box.y >= 0
       /\ box.x + box.width <= ViewportWidth
       /\ box.y + box.height <= ViewportHeight

(***************************************************************************)
(* Documents with depth: getXPath and the driver's XPath resolution on     *)
(* elements below /html/body.  A document is the sequence of the children  *)
(* of body, each with the sequence of its own children; an element is      *)
(* addressed by its child positions from body down.                        *)
(***************************************************************************)
MaxSiblings == 2

\* Two elements below body, div or button, each with up to MaxSiblings
\* children, div or button, with or without an id attribute.
TreeDocs ==
  LET tags == {"div", "button"}
      leaves == [tag : tags, id : {"", "x"}]
      kids == UNION {[1..k -> leaves] : k \in 0..MaxSiblings}
      tops == [tag : tags, id : {""}, kids : kids]
  IN  {<<a, b>> : a \in tops, b \in tops}

ElementsOf(doc) ==
  {<<i>> : i \in DOMAIN doc}
    \cup UNION {{<<i, j>> : j \in DOMAIN doc[i].kids} : i \in DOMAIN doc}

\* The element and its siblings, itself included, in document order.
SiblingsOf(doc, el) == IF Len(el) = 1 THEN doc ELSE doc[el[1]].kids
ElementAt(doc, el) == SiblingsOf(doc, el)[el[Len(el)]]

\* A path step that never writes a position.
PathStepBare(doc, el) == [tag |-> ElementAt(doc, el).tag, position |-> 0]

\* One part of the path: index is the number of preceding siblings with
\* the node name of the element (the loop over previousSibling); the part
\* is the tag name and, when index > 0, the position index + 1 (position 0
\* stands for no suffix).
PathStep(doc, el) ==
  LET index == Cardinality({q \in 1..(el[Len(el)] - 1) :
                              SiblingsOf(doc, el)[q].tag = ElementAt(doc, el).tag})
  IN  [tag |-> ElementAt(doc, el).tag, position |-> IF index > 0 THEN index + 1 ELSE 0]

\* getXPath on an element of a document with depth: the id form for an
\* element with an id attribute, otherwise the parts from the element up
\* through parentElement, joined from the root down (html and body are the
\* only elements at their level, their parts carry no position).
getXPathIn(doc, el) ==
  IF ElementAt(doc, el).id # ""
  THEN [kind |-> "id", key |-> ElementAt(doc, el).id, steps |-> <<>>]
  ELSE [kind |-> "path", key |-> "",
        steps |-> [k \in 1..Len(el) |-> PathStep(doc, SubSeq(el, 1, k))]]

\* The children a step selects among the children of one element: all of
\* the tag, or the position-th of the tag.
StepSelects(children, step) ==
  {q \in DOMAIN children :
     /\ children[q].tag = step.tag
     /\ step.position = 0
          \/ Cardinality({r \in 1..q : children[r].tag = step.tag}) = step.position}

\* page.locator(`xpath=${xpath}`) resolved against the document: the
\* elements the expression selects.
XPathSelects(xp, doc) ==
  IF xp.kind = "id" THEN {el \in ElementsOf(doc) : ElementAt(doc, el).id = xp.key}
  ELSE IF Len(xp.steps) = 1 THEN {<<i>> : i \in StepSelects(doc, xp.steps[1])}
  ELSE UNION {{<<i, j>> : j \in StepSelects(doc[i].kids, xp.steps[2])} :
                i \in StepSelects(doc, xp.steps[1])}

\* locator.first() on a document with depth: the first selected element in
\* document order (an element comes before its children and before its
\* later siblings with theirs); <<>> when nothing is selected.
XPathFirst(xp, doc) ==
  LET InDocumentOrder(a, b) ==
        \/ a[1] < b[1]
        \/ a[1] = b[1] /\ (Len(a) = 1 \/ (Len(b) = 2 /\ a[2] <= b[2]))
  IN  IF XPathSelects(xp, doc) = {} THEN <<>>
      ELSE CHOOSE a \in XPathSelects(xp, doc) :
             \A b \in XPathSelects(xp, doc) : InDocumentOrder(a, b)

(***************************************************************************)
(* Sessions and tool invocations                                           *)
(***************************************************************************)
\* An AWAgent instance with its page and its ElementLocatorRegistry.  A
\* second instance of the same process is modelled by what it shares with
\* this one, the module-level counter (see OtherSessionStart).
Sessions == {"s1"}
\* The tool invocation a session's agent runtime has in flight.
Tasks == {"t1"}
\* The tool invocations of a runtime that runs the tool calls of one model
\* turn side by side.
ToolSlots == {"t1", "t2"}
Owner == [t \in ToolSlots |-> "s1"]

NoId == <<"", 0>>
\* An id no snapshot ever produced.
BogusId == <<"ghost", 0>>
NoHandle == [kind |-> "none", key |-> "", idx |-> 0]
EmptyMap == [x \in {} |-> NoHandle]

VARIABLES
  elementIdCounter,  \* the module-level counter of accessibility-snapshot.util
  at,                \* session -> index in Doms of the document its page shows
  registry,          \* session -> the registry's Map: id -> locator
  task,              \* tool invocation -> its position and locals
  snap,              \* session -> the PageSnapshot last returned to it
  prev,              \* session -> the elements of the PageSnapshot returned before
                     \* that one, each as its id and the element it denoted
  lastAct,           \* session -> outcome of the last action tool call since
                     \* the latest snapshot generation began
  otherLeft,         \* descriptors the other session's pass has still to enrich
  pageClosed,        \* session -> its page has been closed
  calls,             \* tool calls issued so far
  session,           \* session -> the fields of the AWAgent and its driver resources
  run,               \* session -> the API call in work, or the result of the last one
  probe              \* a function of the extractor or a registry method applied
                     \* on its own: its arguments and what it returned

vars ==
  <<elementIdCounter, at, registry, task, snap, prev, lastAct, otherLeft, pageClosed, calls,
    session, run, probe>>

\* The state of the snapshot pipeline and of the session API.
toolVars ==
  <<elementIdCounter, at, registry, task, snap, prev, lastAct, otherLeft, pageClosed, calls,
    probe>>
apiVars == <<session, run, probe>>

\* The document the page of session s shows.
dom == [s \in Sessions |-> Doms[at[s]]]

\* A tool invocation: which tool, where it stands, and its locals.  For a
\* generation pass: the descriptors (data), the number of the one in work
\* (i), its id, the element and results got so far, the elements collected
\* (acc), and a record of the pass (log): per descriptor its id, whether it
\* was registered, what the visibility check answered and for which element.
\* For an action: the id passed, the locator, the driver operations called
\* (ops) and what the editability check answered.
\* What is kept of the snapshot returned before a generation pass, as long
\* as the page still shows the document that snapshot was taken of: that
\* document and the elements.
NoBefore == [taken |-> FALSE, at |-> 0, elements |-> <<>>]
IdleTask ==
  [kind |-> "idle", pc |-> "idle", arg |-> NoId, data |-> <<>>, i |-> 0,
   id |-> NoId, el |-> NoNode, vis |-> FALSE, inView |-> FALSE, acc |-> <<>>,
   log |-> <<>>, at |-> 0, handle |-> NoHandle, ops |-> {}, checked |-> "none",
   extraTags |-> {}, before |-> NoBefore, attempts |-> 0]
\* A returned PageSnapshot, with the record of its pass and the document
\* (index in Doms) page.evaluate saw; raised: the latest call of
\* generateAccessibilitySnapshot rejected instead of returning.
\* extraTags: the tag names the call asked for; before: the snapshot
\* returned before this one, if the page has shown one document since.
NoSnap ==
  [taken |-> FALSE, elements |-> <<>>, log |-> <<>>, at |-> 0, raised |-> FALSE,
   extraTags |-> {}, before |-> NoBefore]
NoAct ==
  [tool |-> "none", arg |-> NoId, outcome |-> "none", ops |-> {}, checked |-> "none",
   target |-> NoNode, attempts |-> 0, error |-> ""]

\* The fields of a constructed AWAgent (0 stands for null; browser, context
\* and pages are numbered as the driver creates them) with the resources of
\* the driver: pages[p] is page p with its context, its document (index in
\* Doms) and whether it is open.  agent: the page the tools of the bound
\* conversation agent were created on.  closedOnce: close() has been called.
\* released: what the latest close() closed, in order.  n: API calls made.
NoSession ==
  [browser |-> 0, context |-> 0, currentPageContext |-> 0, agent |-> 0,
   openBrowsers |-> {}, openContexts |-> {}, pages |-> <<>>,
   launched |-> 0, closedOnce |-> FALSE, released |-> <<>>, n |-> 0,
   budget |-> MaxApiCalls]
\* An API call: the method (op), where it stands (pc), the page its tools
\* were created on, the supersteps its agent loop has run, the conversation,
\* the names of the tools its agent was created with (tools),
\* how it ended (outcome, value, issues, message) and for the properties: the session state
\* it was made in (phase), whether the model was invoked, whether a driver
\* operation was issued, the tool calls counted when it began (calls0) and
\* when its current tool turn began (callsAt), and whether every model turn
\* so far answered with the ReturnValidationResult call with result true.
NoData == <<>>
NoRun ==
  [op |-> "none", pc |-> "idle", page |-> 0, steps |-> 0, messages |-> <<>>,
   outcome |-> "none", value |-> NoData, phase |-> "uninitialized",
   issues |-> {}, message |-> "", invoked |-> FALSE, driver |-> FALSE, calls0 |-> 0,
   callsAt |-> 0, onlyTrue |-> TRUE, tools |-> {}]

\* Nothing applied yet.  pc says how far the application has come; live is
\* the set of ids set since the registry was last cleared, ref the object
\* getMap handed out.
NoProbe ==
  [fn |-> "none", pc |-> "done", doc |-> <<>>, el |-> <<>>, xpath |-> [kind |-> "none", key |-> "", steps |-> <<>>], count |-> 0,
   found |-> <<>>, box |-> NoBox, inViewport |-> FALSE, tagName |-> "", type |-> "",
   explicitRole |-> "", role |-> "", id |-> NoId, handle |-> NoHandle, got |-> NoHandle,
   has |-> FALSE, size |-> 0, ids |-> {}, live |-> {}, ref |-> "none"]

Init ==
  /\ elementIdCounter = 0
  /\ at \in [Sessions -> DOMAIN Doms]
  /\ registry = [s \in Sessions |-> EmptyMap]
  /\ task = [t \in Tasks |-> IdleTask]
  /\ snap = [s \in Sessions |-> NoSnap]
  /\ prev = [s \in Sessions |-> {}]
  /\ lastAct = [s \in Sessions |-> NoAct]
  /\ otherLeft = 0
  /\ pageClosed = [s \in Sessions |-> FALSE]
  /\ calls = 0
  /\ session = [s \in Sessions |-> NoSession]
  /\ run = [s \in Sessions |-> NoRun]
  /\ probe = NoProbe

(***************************************************************************)
(* ElementLocatorRegistry                                                  *)
(***************************************************************************)
RegistryHas(m, id) == id \in DOMAIN m

\* A lookup that falls back to a locator of its own for an unknown id.
RegistryGetFallback(m, id) ==
  IF id \in DOMAIN m THEN m[id] ELSE [kind |-> "path", key |-> "button", idx |-> 0]

\* get(id): the locator, or undefined (NoHandle).
RegistryGet(m, id) == IF id \in DOMAIN m THEN m[id] ELSE NoHandle

\* A set that stores nothing.
RegistrySetDropped(m, id, h) == m

\* set(id, locator): a later set under the same id replaces the earlier one.
RegistrySet(m, id, h) == (id :> h) @@ m

\* A clear that leaves the map as it is.
RegistryKeep(m) == m

\* clear()
RegistryClear(m) == EmptyMap

\* size(): the number of keys of the map.
RegistrySize(m) == Cardinality(DOMAIN m)

\* getAllIds(): the keys of the map, each once.
RegistryGetAllIds(m) == DOMAIN m

\* A getMap that hands out a copy of the map.
RegistryGetMapCopy(m) == "copy"

\* getMap(): the map object itself, not a copy.
RegistryGetMap(m) == "locatorMap"

(***************************************************************************)
(* Driver operations on the page of a session: they reject once the page   *)
(* is closed.                                                              *)
(***************************************************************************)
PageCount(s, xp) == IF pageClosed[s] THEN 0 ELSE LocatorCount(xp, dom[s])
PageIsVisible(s, xp) == IF pageClosed[s] THEN "error" ELSE DriverIsVisible(xp, dom[s])
PageIsEditable(s, xp) == IF pageClosed[s] THEN "error" ELSE DriverIsEditable(xp, dom[s])
PageBoundingBox(s, xp) == IF pageClosed[s] THEN NoBox ELSE DriverBoundingBox(xp, dom[s])
\* The element an operation on the locator acts on.
PageFirst(s, xp) == IF pageClosed[s] THEN NoNode ELSE LocatorFirst(xp, dom[s])
PageCanClick(s, xp) == ~pageClosed[s] /\ DriverCanClick(xp, dom[s])
PageCanFill(s, xp) == ~pageClosed[s] /\ DriverCanFill(xp, dom[s])

(***************************************************************************)
(* generateAccessibilitySnapshot / enrichElement                           *)
(***************************************************************************)
\* A visibility test that takes a failed check for visible.
isVisibleUnlessNo(answer) == answer # "no"

\* element.isVisible().catch(() => false)
isVisible(answer) == answer = "yes"

\* element.isEditable().catch(() => false), the editable field of a snapshot.
editable(answer) == answer = "yes"

\* generateElementId: `${role}_${elementIdCounter++}`.
generateElementId(role) == <<role, elementIdCounter>>

IdsOf(elements) == {elements[k].id : k \in DOMAIN elements}

\* What the ids of a snapshot stand for: the pairs of an id and the element
\* it was handed out for.
Denoted(elements) == {[id |-> elements[k].id, el |-> elements[k].el] : k \in DOMAIN elements}

\* The agent runtime issues one tool call at a time per session.
CanStart(t) == task[t].kind = "idle" /\ calls < MaxCalls

\* generateAccessibilitySnapshot up to its first await: reset the counter,
\* clear the registry, call page.evaluate.
SnapshotStartWith(t, extraTags) ==
  LET s == Owner[t] IN
  /\ CanStart(t)
  /\ calls' = calls + 1
  /\ elementIdCounter' = 0
  /\ registry' = [registry EXCEPT ![s] = RegistryClear(@)]
  /\ task' = [task EXCEPT ![t] =
       [IdleTask EXCEPT !.kind = "snapshot", !.pc = "evaluate", !.extraTags = extraTags,
                        !.before = IF snap[s].taken /\ snap[s].at = at[s]
                                   THEN [taken |-> TRUE, at |-> snap[s].at,
                                         elements |-> snap[s].elements]
                                   ELSE NoBefore]]
  /\ prev' = [prev EXCEPT ![s] = Denoted(snap[s].elements)]
  /\ snap' = [snap EXCEPT ![s] = NoSnap]
  /\ lastAct' = [lastAct EXCEPT ![s] = NoAct]
  /\ UNCHANGED <<at, otherLeft, pageClosed>>
  /\ UNCHANGED apiVars

\* A call without extra tag names.
SnapshotStart(t) == SnapshotStartWith(t, {})

\* The for-loop of generateAccessibilitySnapshot once i of the descriptors
\* data (extracted from document seen) are finished, with the elements acc2
\* collected: enrichElement is entered for the next descriptor (its id is
\* generated before its first await), or the snapshot is returned.
Continue(t, seen, data, i, acc2, log2) ==
  LET s == Owner[t] IN
  IF i < Len(data)
  THEN LET nid == generateElementId(data[i + 1].role) IN
       /\ elementIdCounter' = elementIdCounter + 1
       /\ task' = [task EXCEPT ![t] =
                     [@ EXCEPT !.pc = "count", !.data = data, !.i = i + 1, !.id = nid,
                               !.acc = acc2, !.el = NoNode, !.vis = FALSE,
                               !.inView = FALSE, !.at = seen,
                               !.log = Append(log2, [id |-> nid, reg |-> FALSE,
                                                     vis |-> "none", el |-> NoNode])]]
       /\ snap' = snap
  ELSE /\ elementIdCounter' = elementIdCounter
       /\ task' = [task EXCEPT ![t] = IdleTask]
       /\ snap' = [snap EXCEPT ![s] =
                     [taken |-> TRUE, elements |-> acc2, log |-> log2, at |-> seen,
                      raised |-> FALSE, extraTags |-> task[t].extraTags,
                      before |-> IF task[t].before.at = at[s] THEN task[t].before
                                 ELSE NoBefore]]

\* page.evaluate resolves with the descriptors of the document as it is now;
\* on a closed page it rejects and so does generateAccessibilitySnapshot.
SnapshotEvaluate(t) ==
  LET s == Owner[t] IN
  /\ task[t].pc = "evaluate"
  /\ IF pageClosed[s]
     THEN /\ task' = [task EXCEPT ![t] = IdleTask]
          /\ snap' = [snap EXCEPT ![s] = [NoSnap EXCEPT !.raised = TRUE]]
          /\ UNCHANGED elementIdCounter
     ELSE Continue(t, at[s], Extract(dom[s]), 0, <<>>, <<>>)
  /\ UNCHANGED <<at, registry, prev, lastAct, otherLeft, pageClosed, calls>>
  /\ UNCHANGED apiVars

\* locator.count() resolves: zero matches (or a rejection, caught by the
\* outer try) drops the element; otherwise locator.first() is stored under
\* the id and isVisible() is awaited.
SnapshotCount(t) ==
  LET s == Owner[t]
      tk == task[t]
      xp == tk.data[tk.i].xpath
  IN
  /\ tk.pc = "count"
  /\ IF PageCount(s, xp) = 0
     THEN /\ Continue(t, tk.at, tk.data, tk.i, tk.acc, tk.log)
          /\ registry' = registry
     ELSE /\ registry' = [registry EXCEPT ![s] = RegistrySet(@, tk.id, xp)]
          /\ task' = [task EXCEPT ![t] =
                        [@ EXCEPT !.pc = "visible", !.log[tk.i].reg = TRUE]]
          /\ UNCHANGED <<elementIdCounter, snap>>
  /\ UNCHANGED <<at, prev, lastAct, otherLeft, pageClosed, calls>>
  /\ UNCHANGED apiVars

\* isVisible().catch(() => false) resolves: a hidden element is dropped, its
\* registry entry stays.
SnapshotVisible(t) ==
  LET s == Owner[t]
      tk == task[t]
      xp == tk.data[tk.i].xpath
      answer == PageIsVisible(s, xp)
      log2 == [tk.log EXCEPT ![tk.i].vis = answer, ![tk.i].el = PageFirst(s, xp)]
  IN
  /\ tk.pc = "visible"
  /\ IF ~isVisible(answer)
     THEN Continue(t, tk.at, tk.data, tk.i, tk.acc, log2)
     ELSE /\ task' = [task EXCEPT ![t] =
                        [@ EXCEPT !.pc = "bbox", !.el = PageFirst(s, xp),
                                  !.vis = isVisible(answer), !.log = log2]]
          /\ UNCHANGED <<elementIdCounter, snap>>
  /\ UNCHANGED <<at, registry, prev, lastAct, otherLeft, pageClosed, calls>>
  /\ UNCHANGED apiVars

\* boundingBox().catch(() => null) resolves; viewport containment is the
\* strict box-within-viewport test, false without a box.
SnapshotBBox(t) ==
  LET s == Owner[t]
      tk == task[t]
      xp == tk.data[tk.i].xpath
  IN
  /\ tk.pc = "bbox"
  /\ task' = [task EXCEPT ![t] =
                [@ EXCEPT !.pc = "editable",
                          !.inView = IsInViewport(PageBoundingBox(s, xp))]]
  /\ UNCHANGED <<elementIdCounter, at, registry, snap, prev, lastAct, otherLeft,
                 pageClosed, calls>>
  /\ UNCHANGED apiVars

\* A push at the front of the list.
pushFront(elements, element) == <<element>> \o elements
\* elements.push(enrichedElement)
push(elements, element) == Append(elements, element)

\* isEditable().catch(() => false) resolves: the ElementSnapshot is built
\* (pos: the place of its descriptor in the extractor's output) and pushed.
SnapshotEditable(t) ==
  LET s == Owner[t]
      tk == task[t]
      xp == tk.data[tk.i].xpath
      element == [id |-> tk.id, role |-> tk.data[tk.i].role, visible |-> tk.vis,
                  inViewport |-> tk.inView,
                  editable |-> editable(PageIsEditable(s, xp)),
                  el |-> tk.el, pos |-> tk.i]
  IN
  /\ tk.pc = "editable"
  /\ Continue(t, tk.at, tk.data, tk.i, push(tk.acc, element), tk.log)
  /\ UNCHANGED <<at, registry, prev, lastAct, otherLeft, pageClosed, calls>>
  /\ UNCHANGED apiVars

(***************************************************************************)
(* ClickByElementId / InputByElementId                                     *)
(***************************************************************************)
\* The ids an agent runtime may pass: any it has seen, any the registry
\* holds (a guess), and one that was never produced.
ArgChoices(s) ==
  DOMAIN registry[s] \cup IdsOf(snap[s].elements) \cup {e.id : e \in prev[s]} \cup {BogusId}

\* The result of an action tool call.  "unresolvable": the error `Element ID
\* "<id>" not found in registry. Please take a fresh DOM snapshot first using
\* GetDOMSnapshot tool.`; "notEditable": `Failed to input text into element
\* <id>: Element <id> is not editable`; "actionFailure": `Failed to click on
\* / input text into element <id>: <cause>`; "ok": the success string.
Finished(tool, id, outcome, ops, checked, target) ==
  [tool |-> tool, arg |-> id, outcome |-> outcome, ops |-> ops, checked |-> checked,
   target |-> target, attempts |-> 0, error |-> ""]

\* An id as the tools write it: `${role}_${n}`.
IdText(id) == id[1] \o "_" \o ToString(id[2])
\* The message a rejected driver operation carries.
DriverError(s) ==
  IF pageClosed[s] THEN "Target page, context or browser has been closed"
  ELSE "Timeout 5000ms exceeded"
\* The errors the tools throw from their catch blocks.
ClickFailure(id, cause) == "Failed to click on element " \o IdText(id) \o ": " \o cause
InputFailure(id, cause) == "Failed to input text into element " \o IdText(id) \o ": " \o cause

\* clickByElementIdTool up to its first await: registry.get, throw when
\* absent, otherwise call locator.click.
ClickStart(t, id) ==
  LET s == Owner[t]
      locator == RegistryGet(registry[s], id)
  IN
  /\ CanStart(t)
  /\ calls' = calls + 1
  /\ IF locator = NoHandle
     THEN /\ lastAct' = [lastAct EXCEPT ![s] =
                           Finished("click", id, "unresolvable", {}, "none", NoNode)]
          /\ task' = task
     ELSE /\ task' = [task EXCEPT ![t] =
                        [IdleTask EXCEPT !.kind = "click", !.pc = "click", !.arg = id,
                                         !.handle = locator, !.ops = {"click"},
                                         !.attempts = 1]]
          /\ lastAct' = lastAct
  /\ UNCHANGED <<elementIdCounter, at, registry, snap, prev, otherLeft, pageClosed>>
  /\ UNCHANGED apiVars

\* A click that is called once more after a first failure.
ClickDoneRetry(t) ==
  LET s == Owner[t]
      tk == task[t]
  IN
  /\ tk.pc = "click"
  /\ \E ok \in BOOLEAN :
       IF ok /\ PageCanClick(s, tk.handle)
       THEN /\ lastAct' = [lastAct EXCEPT ![s] =
                 [Finished("click", tk.arg, "ok", tk.ops, "none", PageFirst(s, tk.handle))
                    EXCEPT !.attempts = tk.attempts]]
            /\ task' = [task EXCEPT ![t] = IdleTask]
       ELSE IF tk.attempts < 2
       THEN /\ task' = [task EXCEPT ![t] = [@ EXCEPT !.attempts = @ + 1]]
            /\ lastAct' = lastAct
       ELSE /\ lastAct' = [lastAct EXCEPT ![s] =
                 [Finished("click", tk.arg, "actionFailure", tk.ops, "none", NoNode)
                    EXCEPT !.attempts = tk.attempts,
                           !.error = ClickFailure(tk.arg, DriverError(s))]]
            /\ task' = [task EXCEPT ![t] = IdleTask]
  /\ UNCHANGED <<elementIdCounter, at, registry, snap, prev, otherLeft, pageClosed, calls>>
  /\ UNCHANGED apiVars

\* locator.click({ timeout: 5000 }) settles: success, or a timeout / driver
\* error that is rethrown with the id and the cause.
ClickDone(t) ==
  LET s == Owner[t]
      tk == task[t]
  IN
  /\ tk.pc = "click"
  /\ \E ok \in BOOLEAN :
       lastAct' = [lastAct EXCEPT ![s] =
         IF ok /\ PageCanClick(s, tk.handle)
         THEN [Finished("click", tk.arg, "ok", tk.ops, "none", PageFirst(s, tk.handle))
                 EXCEPT !.attempts = tk.attempts]
         ELSE [Finished("click", tk.arg, "actionFailure", tk.ops, "none", NoNode)
                 EXCEPT !.attempts = tk.attempts,
                        !.error = ClickFailure(tk.arg, DriverError(s))]]
  /\ task' = [task EXCEPT ![t] = IdleTask]
  /\ UNCHANGED <<elementIdCounter, at, registry, snap, prev, otherLeft, pageClosed, calls>>
  /\ UNCHANGED apiVars

\* An editability test that takes a failed check for editable.
isEditableUnlessNo(answer) == answer # "no"

\* locator.isEditable().catch(() => false) of inputByElementIdTool.
isEditable(answer) == answer = "yes"

\* inputByElementIdTool up to its first await: registry.get, throw when
\* absent, otherwise call locator.isEditable.
InputStart(t, id) ==
  LET s == Owner[t]
      locator == RegistryGet(registry[s], id)
  IN
  /\ CanStart(t)
  /\ calls' = calls + 1
  /\ IF locator = NoHandle
     THEN /\ lastAct' = [lastAct EXCEPT ![s] =
                           Finished("input", id, "unresolvable", {}, "none", NoNode)]
          /\ task' = task
     ELSE /\ task' = [task EXCEPT ![t] =
                        [IdleTask EXCEPT !.kind = "input", !.pc = "isEditable", !.arg = id,
                                         !.handle = locator, !.ops = {"isEditable"}]]
          /\ lastAct' = lastAct
  /\ UNCHANGED <<elementIdCounter, at, registry, snap, prev, otherLeft, pageClosed>>
  /\ UNCHANGED apiVars

\* isEditable() settles: not editable throws before any write; otherwise
\* locator.fill is called.
InputCheck(t) ==
  LET s == Owner[t]
      tk == task[t]
      answer == PageIsEditable(s, tk.handle)
  IN
  /\ tk.pc = "isEditable"
  /\ IF ~isEditable(answer)
     THEN /\ lastAct' = [lastAct EXCEPT ![s] =
                           [Finished("input", tk.arg, "notEditable", tk.ops, answer, NoNode)
                              EXCEPT !.error = InputFailure(tk.arg,
                                       "Element " \o IdText(tk.arg) \o " is not editable")]]
          /\ task' = [task EXCEPT ![t] = IdleTask]
     ELSE /\ task' = [task EXCEPT ![t] =
                        [@ EXCEPT !.pc = "fill", !.ops = @ \cup {"fill"}, !.checked = answer,
                                  !.attempts = 1]]
          /\ lastAct' = lastAct
  /\ UNCHANGED <<elementIdCounter, at, registry, snap, prev, otherLeft, pageClosed, calls>>
  /\ UNCHANGED apiVars

\* locator.fill(text, { timeout: 5000 }) settles.
InputFill(t) ==
  LET s == Owner[t]
      tk == task[t]
  IN
  /\ tk.pc = "fill"
  /\ \E ok \in BOOLEAN :
       lastAct' = [lastAct EXCEPT ![s] =
         IF ok /\ PageCanFill(s, tk.handle)
         THEN [Finished("input", tk.arg, "ok", tk.ops, tk.checked, PageFirst(s, tk.handle))
                 EXCEPT !.attempts = tk.attempts]
         ELSE [Finished("input", tk.arg, "actionFailure", tk.ops, tk.checked, NoNode)
                 EXCEPT !.attempts = tk.attempts,
                        !.error = InputFailure(tk.arg, DriverError(s))]]
  /\ task' = [task EXCEPT ![t] = IdleTask]
  /\ UNCHANGED <<elementIdCounter, at, registry, snap, prev, otherLeft, pageClosed, calls>>
  /\ UNCHANGED apiVars

(***************************************************************************)
(* The page changes under the agent: navigation, scripts, the effect of a  *)
(* click or a fill.                                                        *)
(***************************************************************************)
PageMutate(s) ==
  /\ ~pageClosed[s]
  /\ \E k \in DOMAIN Doms : k > at[s] /\ at' = [at EXCEPT ![s] = k]
  /\ UNCHANGED <<elementIdCounter, registry, task, snap, prev, lastAct, otherLeft,
                 pageClosed, calls>>
  /\ UNCHANGED apiVars

\* AWAgent.close(): every page of the context is closed; driver operations
\* on a closed page reject.
PageClose(s) ==
  /\ ~pageClosed[s]
  /\ pageClosed' = [pageClosed EXCEPT ![s] = TRUE]
  /\ UNCHANGED <<elementIdCounter, at, registry, task, snap, prev, lastAct, otherLeft, calls>>
  /\ UNCHANGED apiVars

(***************************************************************************)
(* A generation pass of another AWAgent session of the same process, as    *)
(* far as it touches state this session reads: elementIdCounter is a       *)
(* module-level variable.                                                  *)
(***************************************************************************)
\* The other session's generateAccessibilitySnapshot resets the counter; its
\* page.evaluate will return n descriptors.
OtherSessionStart ==
  /\ otherLeft = 0
  /\ calls < MaxCalls
  /\ calls' = calls + 1
  /\ elementIdCounter' = 0
  /\ \E n \in 0..MaxOtherElems : otherLeft' = n
  /\ UNCHANGED <<at, registry, task, snap, prev, lastAct, pageClosed>>
  /\ UNCHANGED apiVars

\* The other session's enrichElement generates an id.
OtherSessionGenerate ==
  /\ otherLeft > 0
  /\ otherLeft' = otherLeft - 1
  /\ elementIdCounter' = elementIdCounter + 1
  /\ UNCHANGED <<at, registry, task, snap, prev, lastAct, pageClosed, calls>>
  /\ UNCHANGED apiVars

Next ==
  \/ \E t \in Tasks : SnapshotStart(t)
  \/ \E t \in Tasks : SnapshotEvaluate(t)
  \/ \E t \in Tasks : SnapshotCount(t)
  \/ \E t \in Tasks : SnapshotVisible(t)
  \/ \E t \in Tasks : SnapshotBBox(t)
  \/ \E t \in Tasks : SnapshotEditable(t)
  \/ \E t \in Tasks : \E id \in ArgChoices(Owner[t]) : ClickStart(t, id)
  \/ \E t \in Tasks : ClickDone(t)
  \/ \E t \in Tasks : \E id \in ArgChoices(Owner[t]) : InputStart(t, id)
  \/ \E t \in Tasks : InputCheck(t)
  \/ \E t \in Tasks : InputFill(t)
  \/ \E s \in Sessions : PageMutate(s)
  \/ \E s \in Sessions : PageClose(s)
  \/ OtherSessionStart
  \/ OtherSessionGenerate

Spec == Init /\ [][Next]_vars

(***************************************************************************)
(* The tools of createTools under a runtime that runs the tool calls of    *)
(* one model turn side by side (the tools node awaits them together):      *)
(* two invocations of the same session may be in flight at once.  The     *)
(* second slot takes GetDOMSnapshot calls only: the other tools do not     *)
(* write, so one of them beside a snapshot pass is every case there is.    *)
(***************************************************************************)
\* A navigation that also empties the registry.
NavigateToolClearing(t) ==
  LET s == Owner[t] IN
  /\ CanStart(t)
  /\ calls' = calls + 1
  /\ registry' = [registry EXCEPT ![s] = RegistryClear(@)]
  /\ \E ok \in BOOLEAN :
       IF ok /\ ~pageClosed[s]
       THEN /\ lastAct' = [lastAct EXCEPT ![s] =
                   Finished("navigate", NoId, "ok", {"goto"}, "none", NoNode)]
            /\ \E k \in DOMAIN Doms : k > at[s] /\ at' = [at EXCEPT ![s] = k]
       ELSE /\ lastAct' = [lastAct EXCEPT ![s] =
                   Finished("navigate", NoId, "actionFailure", {"goto"}, "none", NoNode)]
            /\ at' = at
  /\ UNCHANGED <<elementIdCounter, task, snap, prev, otherLeft, pageClosed>>
  /\ UNCHANGED apiVars

\* navigateTool: page.goto(url) on the page the tool was created with; a
\* rejection of goto (a timeout, a closed page) is the tool's error.
NavigateTool(t) ==
  LET s == Owner[t] IN
  /\ CanStart(t)
  /\ calls' = calls + 1
  /\ \E ok \in BOOLEAN :
       IF ok /\ ~pageClosed[s]
       THEN /\ lastAct' = [lastAct EXCEPT ![s] =
                   Finished("navigate", NoId, "ok", {"goto"}, "none", NoNode)]
            /\ \E k \in DOMAIN Doms : k > at[s] /\ at' = [at EXCEPT ![s] = k]
       ELSE /\ lastAct' = [lastAct EXCEPT ![s] =
                   Finished("navigate", NoId, "actionFailure", {"goto"}, "none", NoNode)]
            /\ at' = at
  /\ UNCHANGED <<elementIdCounter, registry, task, snap, prev, otherLeft, pageClosed>>
  /\ UNCHANGED apiVars

\* waitTool: resolves after the timeout; it has no page and no registry.
WaitTool(t) ==
  LET s == Owner[t] IN
  /\ CanStart(t)
  /\ calls' = calls + 1
  /\ lastAct' = [lastAct EXCEPT ![s] = Finished("wait", NoId, "ok", {}, "none", NoNode)]
  /\ UNCHANGED <<elementIdCounter, at, registry, task, snap, prev, otherLeft, pageClosed>>
  /\ UNCHANGED apiVars

\* printToConsoleTool: console.log and return true.
PrintTool(t) ==
  LET s == Owner[t] IN
  /\ CanStart(t)
  /\ calls' = calls + 1
  /\ lastAct' = [lastAct EXCEPT ![s] = Finished("print", NoId, "ok", {}, "none", NoNode)]
  /\ UNCHANGED <<elementIdCounter, at, registry, task, snap, prev, otherLeft, pageClosed>>
  /\ UNCHANGED apiVars

InitTools ==
  /\ elementIdCounter = 0
  /\ at \in [Sessions -> DOMAIN Doms]
  /\ registry = [s \in Sessions |-> EmptyMap]
  /\ task = [t \in ToolSlots |-> IdleTask]
  /\ snap = [s \in Sessions |-> NoSnap]
  /\ prev = [s \in Sessions |-> {}]
  /\ lastAct = [s \in Sessions |-> NoAct]
  /\ otherLeft = 0
  /\ pageClosed = [s \in Sessions |-> FALSE]
  /\ calls = 0
  /\ session = [s \in Sessions |-> NoSession]
  /\ run = [s \in Sessions |-> NoRun]
  /\ probe = NoProbe

NextTools ==
  \/ \E t \in ToolSlots : SnapshotStart(t)
  \/ \E t \in ToolSlots : SnapshotEvaluate(t)
  \/ \E t \in ToolSlots : SnapshotCount(t)
  \/ \E t \in ToolSlots : SnapshotVisible(t)
  \/ \E t \in ToolSlots : SnapshotBBox(t)
  \/ \E t \in ToolSlots : SnapshotEditable(t)
  \/ \E t \in Tasks : \E id \in ArgChoices(Owner[t]) : ClickStart(t, id)
  \/ \E t \in Tasks : ClickDone(t)
  \/ \E t \in Tasks : \E id \in ArgChoices(Owner[t]) : InputStart(t, id)
  \/ \E t \in Tasks : InputCheck(t)
  \/ \E t \in Tasks : InputFill(t)
  \/ \E t \in Tasks : NavigateTool(t)
  \/ \E t \in Tasks : WaitTool(t)
  \/ \E t \in Tasks : PrintTool(t)

SpecTools == InitTools /\ [][NextTools]_vars

(***************************************************************************)
(* The functions of the extractor and of enrichElement applied on their    *)
(* own, to arguments drawn from bounded sets.                              *)
(***************************************************************************)
\* The variables but registry and probe.
otherVars ==
  <<elementIdCounter, at, task, snap, prev, lastAct, otherLeft, pageClosed, calls, session, run>>

\* page.evaluate: getXPath on the element.
getXPathCall ==
  /\ probe.fn = "getXPath" /\ probe.pc = "input"
  /\ probe' = [probe EXCEPT !.pc = "extracted", !.xpath = getXPathIn(probe.doc, probe.el)]
  /\ UNCHANGED <<registry, otherVars>>

\* enrichElement: page.locator(`xpath=${xpath}`), count() and first().
locatorCall ==
  /\ probe.fn = "getXPath" /\ probe.pc = "extracted"
  /\ probe' = [probe EXCEPT !.pc = "done",
                            !.count = Cardinality(XPathSelects(probe.xpath, probe.doc)),
                            !.found = XPathFirst(probe.xpath, probe.doc)]
  /\ UNCHANGED <<registry, otherVars>>

\* enrichElement: the viewport test on the bounding box.
isInViewportCall ==
  /\ probe.fn = "isInViewport" /\ probe.pc = "input"
  /\ probe' = [probe EXCEPT !.pc = "done", !.inViewport = IsInViewport(probe.box)]
  /\ UNCHANGED <<registry, otherVars>>

\* inferRole in page.evaluate, then generateElementId(elementData.role) in
\* enrichElement.
inferRoleCall ==
  LET role == inferRoleOf(probe.tagName, probe.type, probe.explicitRole) IN
  /\ probe.fn = "inferRole" /\ probe.pc = "input"
  /\ probe' = [probe EXCEPT !.pc = "done", !.role = role, !.id = generateElementId(role)]
  /\ elementIdCounter' = elementIdCounter + 1
  /\ UNCHANGED <<at, registry, task, snap, prev, lastAct, otherLeft, pageClosed, calls,
                 session, run>>

InitExtractor ==
  /\ elementIdCounter = 0
  /\ at = [s \in Sessions |-> Len(Doms)]
  /\ registry = [s \in Sessions |-> EmptyMap]
  /\ task = [t \in Tasks |-> IdleTask]
  /\ snap = [s \in Sessions |-> NoSnap]
  /\ prev = [s \in Sessions |-> {}]
  /\ lastAct = [s \in Sessions |-> NoAct]
  /\ otherLeft = 0
  /\ pageClosed = [s \in Sessions |-> FALSE]
  /\ calls = 0
  /\ session = [s \in Sessions |-> NoSession]
  /\ run = [s \in Sessions |-> NoRun]
  /\ \/ \E d \in TreeDocs : \E e \in ElementsOf(d) :
          probe = [NoProbe EXCEPT !.fn = "getXPath", !.pc = "input", !.doc = d, !.el = e]
     \/ \E x \in {-1, 0, 1}, y \in {-1, 0, 1}, dw \in -2..1, dh \in -2..1, null \in BOOLEAN :
          probe = [NoProbe EXCEPT !.fn = "isInViewport", !.pc = "input",
                     !.box = IF null THEN NoBox
                             ELSE [x |-> x, y |-> y, width |-> ViewportWidth + dw,
                                   height |-> ViewportHeight + dh, null |-> FALSE]]
     \/ \E t \in {"button", "a", "input", "textarea", "select", "form", "nav", "main",
                   "dialog", "div"},
           ty \in {"text", "email", "password", "checkbox", "radio", "search", "submit",
                    "number"},
           r \in {"", "tab", "button"} :
          probe = [NoProbe EXCEPT !.fn = "inferRole", !.pc = "input", !.tagName = t,
                                  !.type = ty, !.explicitRole = r]

NextExtractor ==
  \/ getXPathCall
  \/ locatorCall
  \/ isInViewportCall
  \/ inferRoleCall

SpecExtractor == InitExtractor /\ [][NextExtractor]_vars

(***************************************************************************)
(* The methods of ElementLocatorRegistry called in any order, and the map  *)
(* getMap hands out written through (as generateAccessibilitySnapshot and  *)
(* enrichElement do).                                                      *)
(***************************************************************************)
ProbeIds == {<<"button", 0>>, <<"button", 1>>, <<"link", 0>>}
ProbeHandles ==
  {[kind |-> "path", key |-> "button", idx |-> 0], [kind |-> "path", key |-> "a", idx |-> 0]}

\* The probe of a method call: live and ref are carried over.
Method(fn) == [NoProbe EXCEPT !.fn = fn, !.live = probe.live, !.ref = probe.ref]

RegistrySetCall(s, id, h) ==
  /\ registry' = [registry EXCEPT ![s] = RegistrySet(@, id, h)]
  /\ probe' = [Method("set") EXCEPT !.id = id, !.handle = h, !.live = @ \cup {id}]
  /\ UNCHANGED otherVars

RegistryGetCall(s, id) ==
  /\ probe' = [Method("get") EXCEPT !.id = id, !.got = RegistryGet(registry[s], id)]
  /\ UNCHANGED registry
  /\ UNCHANGED otherVars

RegistryHasCall(s, id) ==
  /\ probe' = [Method("has") EXCEPT !.id = id, !.has = RegistryHas(registry[s], id)]
  /\ UNCHANGED registry
  /\ UNCHANGED otherVars

RegistryClearCall(s) ==
  /\ registry' = [registry EXCEPT ![s] = RegistryClear(@)]
  /\ probe' = [Method("clear") EXCEPT !.live = {}]
  /\ UNCHANGED otherVars

RegistrySizeCall(s) ==
  /\ probe' = [Method("size") EXCEPT !.size = RegistrySize(registry[s])]
  /\ UNCHANGED registry
  /\ UNCHANGED otherVars

RegistryGetAllIdsCall(s) ==
  /\ probe' = [Method("getAllIds") EXCEPT !.ids = RegistryGetAllIds(registry[s])]
  /\ UNCHANGED registry
  /\ UNCHANGED otherVars

RegistryGetMapCall(s) ==
  /\ probe' = [Method("getMap") EXCEPT !.ref = RegistryGetMap(registry[s])]
  /\ UNCHANGED registry
  /\ UNCHANGED otherVars

\* locatorMap.set(id, element) on the map getMap handed out: it reaches the
\* registry when that map is the registry's own.
MapSet(s, id, h) ==
  /\ probe.ref # "none"
  /\ registry' = [registry EXCEPT ![s] = IF probe.ref = "locatorMap" THEN RegistrySet(@, id, h) ELSE @]
  /\ probe' = [Method("map.set") EXCEPT !.id = id, !.handle = h, !.live = @ \cup {id}]
  /\ UNCHANGED otherVars

\* locatorMap.clear() on the map getMap handed out.
MapClear(s) ==
  /\ probe.ref # "none"
  /\ registry' = [registry EXCEPT ![s] = IF probe.ref = "locatorMap" THEN RegistryClear(@) ELSE @]
  /\ probe' = [Method("map.clear") EXCEPT
                 !.live = IF probe.ref = "locatorMap" THEN {} ELSE @]
  /\ UNCHANGED otherVars

NextRegistry ==
  \/ \E s \in Sessions, id \in ProbeIds, h \in ProbeHandles : RegistrySetCall(s, id, h)
  \/ \E s \in Sessions, id \in ProbeIds : RegistryGetCall(s, id)
  \/ \E s \in Sessions, id \in ProbeIds : RegistryHasCall(s, id)
  \/ \E s \in Sessions : RegistryClearCall(s)
  \/ \E s \in Sessions : RegistrySizeCall(s)
  \/ \E s \in Sessions : RegistryGetAllIdsCall(s)
  \/ \E s \in Sessions : RegistryGetMapCall(s)
  \/ \E s \in Sessions, id \in ProbeIds, h \in ProbeHandles : MapSet(s, id, h)
  \/ \E s \in Sessions : MapClear(s)

SpecRegistry == Init /\ [][NextRegistry]_vars


(***************************************************************************)
(* AWAgent: the session and its browser resources                          *)
(***************************************************************************)
\* A new page shows the blank document; the caller navigates it with
\* getCurrentPage().goto(url) to one of these documents.
BlankDoc == Len(Doms)
GotoDocs == {1, 4}

IsOpen(sess, p) == p \in DOMAIN sess.pages /\ sess.pages[p].open
\* context.pages(): the open pages of context c.
ContextPages(sess, c) ==
  {p \in DOMAIN sess.pages : sess.pages[p].context = c /\ sess.pages[p].open}
FirstOf(ps) == CHOOSE p \in ps : \A q \in ps : p <= q

\* The state of the session as its fields tell it: no current page before
\* init and after close; the conversation agent is bound by the first do().
Phase(sess) ==
  IF sess.currentPageContext = 0
  THEN IF sess.closedOnce THEN "closed" ELSE "uninitialized"
  ELSE IF sess.agent = 0 THEN "ready" ELSE "bound"

\* The caller awaits each call before the next one.
CanCall(s) ==
  /\ run[s].pc = "idle"
  /\ session[s].n < session[s].budget
  /\ \A t \in Tasks : Owner[t] = s => task[t].kind = "idle"
Called(s, op) ==
  [NoRun EXCEPT !.op = op, !.phase = Phase(session[s]), !.calls0 = calls,
                !.callsAt = calls]
Counted(sess) == [sess EXCEPT !.n = @ + 1]

\* A guard that lets every call through.
currentPageMissingNever(sess) == FALSE
\* if (!this.currentPageContext) throw new Error("Agent is not initialized")
currentPageMissing(sess) == sess.currentPageContext = 0

\* init(): launches a browser, opens a context in it and a page in that,
\* whatever the fields held before.
init(s) ==
  LET sess == session[s]
      b == sess.launched + 1
      p == Len(sess.pages) + 1 IN
  /\ CanCall(s)
  /\ session' = [session EXCEPT ![s] =
       [Counted(sess) EXCEPT
          !.browser = b, !.context = b, !.currentPageContext = p,
          !.openBrowsers = @ \cup {b}, !.openContexts = @ \cup {b},
          !.pages = Append(@, [context |-> b, doc |-> BlankDoc, open |-> TRUE,
                               by |-> "init"]),
          !.launched = b]]
  /\ run' = [run EXCEPT ![s] =
       [Called(s, "init") EXCEPT !.outcome = "ok", !.driver = TRUE, !.page = p]]
  /\ UNCHANGED toolVars

\* newPage(): a further page of the context, which becomes the current one.
newPage(s) ==
  LET sess == session[s]
      p == Len(sess.pages) + 1 IN
  /\ CanCall(s)
  /\ IF sess.context = 0
     THEN /\ session' = [session EXCEPT ![s] = Counted(sess)]
          /\ run' = [run EXCEPT ![s] =
               [Called(s, "newPage") EXCEPT !.outcome = "Browser not initialized"]]
     ELSE /\ session' = [session EXCEPT ![s] =
               [Counted(sess) EXCEPT
                  !.currentPageContext = p,
                  !.pages = Append(@, [context |-> sess.context, doc |-> BlankDoc,
                                       open |-> TRUE, by |-> "newPage"])]]
          /\ run' = [run EXCEPT ![s] =
               [Called(s, "newPage") EXCEPT !.outcome = "ok", !.driver = TRUE,
                                            !.page = p]]
  /\ UNCHANGED toolVars

\* getCurrentPage(): the current page, or the error of a session without one.
getCurrentPage(s) ==
  LET sess == session[s] IN
  /\ CanCall(s)
  /\ session' = [session EXCEPT ![s] = Counted(sess)]
  /\ run' = [run EXCEPT ![s] =
       IF currentPageMissing(sess)
       THEN [Called(s, "getCurrentPage") EXCEPT !.outcome = "Agent is not initialized"]
       ELSE [Called(s, "getCurrentPage") EXCEPT !.outcome = "ok",
                                                !.page = sess.currentPageContext]]
  /\ UNCHANGED toolVars

\* The caller navigates the current page: agent.getCurrentPage().goto(url).
Navigate(s) ==
  LET sess == session[s]
      p == sess.currentPageContext IN
  /\ run[s].pc = "idle"
  /\ IsOpen(sess, p)
  /\ sess.pages[p].doc = BlankDoc
  /\ \E k \in GotoDocs :
       session' = [session EXCEPT ![s] = [sess EXCEPT !.pages[p].doc = k]]
  /\ UNCHANGED <<run, toolVars>>

\* close() is entered.
closeStart(s) ==
  /\ CanCall(s)
  /\ session' = [session EXCEPT ![s] =
       [Counted(@) EXCEPT !.closedOnce = TRUE, !.released = <<>>]]
  /\ run' = [run EXCEPT ![s] = [Called(s, "close") EXCEPT !.pc = "closing"]]
  /\ UNCHANGED toolVars

\* A close() that closes the context while pages of it are open.
closeStepContextFirst(s) ==
  LET sess == session[s]
      c == sess.context IN
  /\ run[s].pc = "closing"
  /\ c # 0
  /\ session' = [session EXCEPT ![s] =
       [sess EXCEPT !.openContexts = @ \ {c}, !.context = 0,
                    !.currentPageContext = 0,
                    !.released = Append(@, [kind |-> "context", id |-> c])]]
  /\ UNCHANGED <<run, toolVars>>

\* The next await of close(): page.close() of a page of context.pages(),
\* then context.close() (after it context and currentPageContext are null),
\* then browser.close() (after it browser is null).
closeStep(s) ==
  LET sess == session[s]
      c == sess.context
      b == sess.browser
      open == ContextPages(sess, c) IN
  /\ run[s].pc = "closing"
  /\ c # 0 \/ b # 0
  /\ session' = [session EXCEPT ![s] =
       IF c # 0 /\ open # {}
       THEN [sess EXCEPT !.pages[FirstOf(open)].open = FALSE,
                         !.released = Append(@, [kind |-> "page", id |-> FirstOf(open)])]
       ELSE IF c # 0
       THEN [sess EXCEPT !.openContexts = @ \ {c}, !.context = 0,
                         !.currentPageContext = 0,
                         !.released = Append(@, [kind |-> "context", id |-> c])]
       ELSE [sess EXCEPT !.openBrowsers = @ \ {b}, !.browser = 0,
                         !.released = Append(@, [kind |-> "browser", id |-> b])]]
  /\ UNCHANGED <<run, toolVars>>

\* A close() that rejects when there was nothing to close.
closeReturnStrict(s) ==
  /\ run[s].pc = "closing"
  /\ session[s].context = 0
  /\ session[s].browser = 0
  /\ run' = [run EXCEPT ![s] =
       [@ EXCEPT !.pc = "idle",
                 !.outcome = IF session[s].released = <<>> THEN "Browser not initialized"
                             ELSE "ok",
                 !.driver = session[s].released # <<>>]]
  /\ UNCHANGED <<session, toolVars>>

\* close() returns; the registry and the bound agent are left as they are.
closeReturn(s) ==
  /\ run[s].pc = "closing"
  /\ session[s].context = 0
  /\ session[s].browser = 0
  /\ run' = [run EXCEPT ![s] = [@ EXCEPT !.pc = "idle", !.outcome = "ok",
                                        !.driver = session[s].released # <<>>]]
  /\ UNCHANGED <<session, toolVars>>

(***************************************************************************)
(* Messages of a conversation, and the caller's schema of extract()        *)
(***************************************************************************)
\* Message content: an object, an array of content blocks, a string that
\* is JSON, or any other string.  JSON.stringify gives the JSON string of
\* a value and JSON.parse gives the value back, or throws on other strings.
NoContent == [form |-> "text", data |-> NoData]
JSONstringify(v) == [form |-> "json", data |-> v]
JSONparse(c) ==
  IF c.form = "json" THEN [ok |-> TRUE, data |-> c.data] ELSE [ok |-> FALSE, data |-> NoData]

NoKwargs == [present |-> FALSE, data |-> NoData]
HumanMessage ==
  [type |-> "human", name |-> "", tool_calls |-> <<>>, content |-> NoContent,
   structured_output |-> NoKwargs]
AIMessage(toolCalls, content, kwargs) ==
  [type |-> "ai", name |-> "", tool_calls |-> toolCalls, content |-> content,
   structured_output |-> kwargs]
ToolMessage(name, content) ==
  [type |-> "tool", name |-> name, tool_calls |-> <<>>, content |-> content,
   structured_output |-> NoKwargs]
ToolCall(name, args) == <<[name |-> name, args |-> args]>>

\* The schema the caller of extract() passes, z.object({name: z.string(),
\* price: z.number()}), and the answers the model may give for it: a value
\* is an object with fields or an array; a field holds a string, a number
\* or is absent; note is a field the schema does not know.
SchemaType == [name |-> "str", price |-> "num"]
DataFields == {"name", "price", "note"}
Object(name, price, note) ==
  [kind |-> "object", fields |-> [name |-> name, price |-> price, note |-> note]]
Blocks == [kind |-> "array", fields |-> [name |-> "absent", price |-> "absent", note |-> "absent"]]
DataChoices ==
  {Object("str", "num", "absent"), Object("str", "num", "str"),
   Object("str", "absent", "absent"), Object("num", "num", "absent"),
   Object("num", "absent", "absent")}

\* A schema that lets a missing field pass.
schemaIssuesLenient(v) ==
  IF v.kind # "object" THEN {[path |-> "", message |-> "Expected object"]}
  ELSE {[path |-> f, message |-> "Expected " \o SchemaType[f]] :
          f \in {g \in DOMAIN SchemaType : v.fields[g] \notin {SchemaType[g], "absent"}}}
\* The issues of schema.parse(v): path and message per failing field.
schemaIssues(v) ==
  IF v.kind # "object" THEN {[path |-> "", message |-> "Expected object"]}
  ELSE {[path |-> f,
         message |-> IF v.fields[f] = "absent" THEN "Required"
                     ELSE "Expected " \o SchemaType[f]] :
          f \in {g \in DOMAIN SchemaType : v.fields[g] # SchemaType[g]}}
\* What schema.parse(v) returns for a valid v: unknown keys are stripped.
schemaOutput(v) == [v EXCEPT !.fields.note = "absent"]

\* error.issues in the order zod reports them, the order of the schema keys.
SchemaKeys == <<"name", "price">>
issueList(v) ==
  IF v.kind # "object" THEN <<[path |-> "", message |-> "Expected object"]>>
  ELSE LET line(f) == CHOOSE e \in schemaIssues(v) : e.path = f IN
       [k \in 1..Len(SelectSeq(SchemaKeys, LAMBDA f : \E e \in schemaIssues(v) : e.path = f))
          |-> line(SelectSeq(SchemaKeys, LAMBDA f : \E e \in schemaIssues(v) : e.path = f)[k])]
RECURSIVE joinLines(_)
joinLines(issues) ==
  IF issues = <<>> THEN ""
  ELSE issues[1].path \o ": " \o issues[1].message
         \o (IF Len(issues) = 1 THEN "" ELSE ", " \o joinLines(Tail(issues)))
\* A message that names the first issue only.
errorMessagesFirst(issues) == joinLines(SubSeq(issues, 1, 1))
\* error.issues.map((e) => `${e.path.join(".")}: ${e.message}`).join(", ")
errorMessages(issues) == joinLines(issues)

(***************************************************************************)
(* AWAgent: what test() and extract() read from the conversation           *)
(***************************************************************************)
IsValidationResult(m) == m.type = "tool" /\ m.name = "ReturnValidationResult"
IsValidationCall(tc) == tc.name = "ReturnValidationResult"
ValidationCalls(m) == IF m.type = "ai" THEN SelectSeq(m.tool_calls, IsValidationCall) ELSE <<>>
BoolName(b) == IF b THEN "true" ELSE "false"

\* A scan that answers false when it finds nothing.
validationResultDefault == [ok |-> TRUE, result |-> FALSE, error |-> ""]
\* The throw after the loop of extractValidationResult.
validationResultMissing ==
  [ok |-> FALSE, result |-> FALSE, error |-> "Validation result not found in agent response"]

\* A scan from the oldest message on.
scanIndexForward(len, k) == k
\* The k-th message looked at: for (let i = messages.length - 1; i >= 0; i--).
scanIndex(len, k) == len - k + 1

\* extractValidationResult, from its k-th iteration on: a tool message named
\* ReturnValidationResult answers with the result of its parsed content
\* (or the parse error), an AI message with such a tool call answers with the
\* result argument of the call, any other message is passed over.
RECURSIVE extractValidationResultFrom(_, _)
extractValidationResultFrom(messages, k) ==
  IF k > Len(messages) THEN validationResultMissing
  ELSE LET m == messages[scanIndex(Len(messages), k)] IN
       IF IsValidationResult(m)
       THEN IF JSONparse(m.content).ok
            THEN [ok |-> TRUE, result |-> JSONparse(m.content).data.result, error |-> ""]
            ELSE [ok |-> FALSE, result |-> FALSE,
                  error |-> "Failed to parse validation result"]
       ELSE IF ValidationCalls(m) # <<>>
       THEN [ok |-> TRUE, result |-> ValidationCalls(m)[1].args.result, error |-> ""]
       ELSE extractValidationResultFrom(messages, k + 1)
extractValidationResult(messages) == extractValidationResultFrom(messages, 1)

\* extractStructuredOutput: the data of the last message (its content if
\* that is an object, else additional_kwargs.structured_output, else its
\* string content parsed as JSON), validated by schema.parse.
extractStructuredOutput(messages) ==
  LET last == messages[Len(messages)]
      parsed == JSONparse(last.content)
      structuredData ==
        IF last.content.form \in {"object", "blocks"} THEN last.content.data
        ELSE IF last.structured_output.present THEN last.structured_output.data
        ELSE parsed.data
      failed(error, issues, detail) ==
        [ok |-> FALSE, data |-> NoData, error |-> error, issues |-> issues,
         message |-> error \o detail] IN
  IF messages = <<>> \/ last.type # "ai"
  THEN failed("No structured output found in agent response",
              {}, ". Expected an AI message with structured data.")
  ELSE IF last.content.form \notin {"object", "blocks"}
          /\ ~last.structured_output.present /\ ~parsed.ok
  THEN failed("Failed to extract structured output",
              {}, ": Could not parse structured output from response")
  ELSE IF schemaIssues(structuredData) # {}
  THEN failed("Extracted data validation failed", schemaIssues(structuredData),
              ": " \o errorMessages(issueList(structuredData)))
  ELSE [ok |-> TRUE, data |-> schemaOutput(structuredData), error |-> "", issues |-> {},
        message |-> ""]

(***************************************************************************)
(* AWAgent: do(), test() and extract() with the loop of the agent runtime  *)
(***************************************************************************)
TestRecursionLimit == 10
ExtractRecursionLimit == 15
\* The limits exchanged.
recursionLimitSwapped(op) ==
  IF op = "test" THEN ExtractRecursionLimit ELSE TestRecursionLimit
\* The recursionLimit passed to invoke by test() and by extract().
recursionLimit(op) == IF op = "test" THEN TestRecursionLimit ELSE ExtractRecursionLimit
\* The runtime runs no further superstep once the limit has been reached.
OutOfSteps(r) == r.op \in {"test", "extract"} /\ r.steps >= recursionLimit(r.op)

\* createTools(page): the names of the tools every entry point gives its
\* agent (no custom tools are configured).
createTools ==
  {"ClickByElementId", "InputByElementId", "GetDOMSnapshot", "Wait", "NavigateToURL",
   "PrintToConsole"}
\* Every entry point adds the validation tool.
toolsWithValidation(op) == createTools \cup {"ReturnValidationResult"}
\* The tools of the agent of an entry point: createTools, and for test()
\* validateConditionTool() as well.
tools(op) ==
  IF op = "test" THEN createTools \cup {"ReturnValidationResult"} ELSE createTools

\* The tools the model requests, out of those it is given.
NoArgs == [result |-> FALSE, extraTags |-> {}]
\* The extraTags arguments a model passes to GetDOMSnapshot.
ExtraTagChoices == {{}, {"p"}}
ToolNames(op) ==
  tools(op) \cap
    (CASE op = "do" -> {"GetDOMSnapshot"}
       [] op = "test" -> {"GetDOMSnapshot", "ReturnValidationResult"}
       [] OTHER -> {"GetDOMSnapshot", "Wait"})
ToolCalls(op) ==
  {ToolCall(name, NoArgs) : name \in ToolNames(op) \cap {"Wait"}}
    \cup {ToolCall(name, [NoArgs EXCEPT !.extraTags = x]) :
            name \in ToolNames(op) \cap {"GetDOMSnapshot"}, x \in ExtraTagChoices}
    \cup {ToolCall(name, [NoArgs EXCEPT !.result = b]) :
            name \in ToolNames(op) \cap {"ReturnValidationResult"}, b \in BOOLEAN}
\* The answers that end the loop: text, or for extract() the structured
\* answer in one of the places extractStructuredOutput looks at.
FinalAnswers(op) ==
  IF op = "extract"
  THEN {AIMessage(<<>>, [form |-> "object", data |-> d], NoKwargs) : d \in DataChoices}
         \cup {AIMessage(<<>>, JSONstringify(d), NoKwargs) : d \in DataChoices}
         \cup {AIMessage(<<>>, NoContent, [present |-> TRUE, data |-> d]) : d \in DataChoices}
         \cup {AIMessage(<<>>, NoContent, NoKwargs),
               AIMessage(<<>>, [form |-> "blocks", data |-> Blocks], NoKwargs)}
  ELSE {AIMessage(<<>>, NoContent, NoKwargs)}
\* test() and extract() tell the model to take the snapshot first.
ModelAnswers(r) ==
  FinalAnswers(r.op)
    \cup {AIMessage(tc, NoContent, NoKwargs) :
            tc \in {c \in ToolCalls(r.op) :
                      c[1].name = "GetDOMSnapshot"
                        => calls < MaxCalls /\ (r.op = "do" \/ r.steps = 0)}}
RequestedTool(r) == r.messages[Len(r.messages)].tool_calls[1]

\* The tools were created on page p: their driver operations go to it.
ToolsOn(s, p) ==
  /\ pageClosed' = [pageClosed EXCEPT ![s] = ~IsOpen(session[s], p)]
  /\ at' = [at EXCEPT ![s] = IF IsOpen(session[s], p) THEN session[s].pages[p].doc ELSE @]
  /\ UNCHANGED <<elementIdCounter, registry, task, snap, prev, lastAct, otherLeft, calls,
               probe>>
Invoking(s, op, p) ==
  [Called(s, op) EXCEPT !.pc = "model", !.page = p, !.messages = <<HumanMessage>>,
                        !.tools = tools(op)]
Failing(s, op) == [Called(s, op) EXCEPT !.outcome = "Agent is not initialized"]

\* A do() that creates its tools and its agent anew on every call.
doRebinding(s) ==
  LET sess == session[s]
      p == sess.currentPageContext IN
  /\ CanCall(s)
  /\ IF currentPageMissing(sess)
     THEN /\ session' = [session EXCEPT ![s] = Counted(sess)]
          /\ run' = [run EXCEPT ![s] = Failing(s, "do")]
          /\ UNCHANGED toolVars
     ELSE /\ session' = [session EXCEPT ![s] = [Counted(sess) EXCEPT !.agent = p]]
          /\ run' = [run EXCEPT ![s] = Invoking(s, "do", p)]
          /\ ToolsOn(s, p)

\* do(task): the first call creates the tools on the current page and binds
\* the agent; every call invokes the bound agent.
do(s) ==
  LET sess == session[s]
      p == IF sess.agent = 0 THEN sess.currentPageContext ELSE sess.agent IN
  /\ CanCall(s)
  /\ IF currentPageMissing(sess)
     THEN /\ session' = [session EXCEPT ![s] = Counted(sess)]
          /\ run' = [run EXCEPT ![s] = Failing(s, "do")]
          /\ UNCHANGED toolVars
     ELSE /\ session' = [session EXCEPT ![s] = [Counted(sess) EXCEPT !.agent = p]]
          /\ run' = [run EXCEPT ![s] = Invoking(s, "do", p)]
          /\ ToolsOn(s, p)

\* test(condition): an agent of its own with the tools on the current page
\* and ReturnValidationResult, invoked with recursionLimit 10.
test(s) ==
  LET sess == session[s] IN
  /\ CanCall(s)
  /\ session' = [session EXCEPT ![s] = Counted(sess)]
  /\ IF currentPageMissing(sess)
     THEN /\ run' = [run EXCEPT ![s] = Failing(s, "test")]
          /\ UNCHANGED toolVars
     ELSE /\ run' = [run EXCEPT ![s] = Invoking(s, "test", sess.currentPageContext)]
          /\ ToolsOn(s, sess.currentPageContext)

\* extract(prompt, schema): an agent of its own with the tools on the
\* current page, invoked with recursionLimit 15.
extract(s) ==
  LET sess == session[s] IN
  /\ CanCall(s)
  /\ session' = [session EXCEPT ![s] = Counted(sess)]
  /\ IF currentPageMissing(sess)
     THEN /\ run' = [run EXCEPT ![s] = Failing(s, "extract")]
          /\ UNCHANGED toolVars
     ELSE /\ run' = [run EXCEPT ![s] = Invoking(s, "extract", sess.currentPageContext)]
          /\ ToolsOn(s, sess.currentPageContext)

\* A superstep of the model node: the model is invoked and answers with a
\* tool call or with a final answer, which ends the loop.
modelTurn(s) ==
  LET r == run[s] IN
  /\ r.pc = "model"
  /\ ~OutOfSteps(r)
  /\ \E m \in ModelAnswers(r) :
       run' = [run EXCEPT ![s] =
         [r EXCEPT !.messages = Append(@, m), !.steps = @ + 1, !.invoked = TRUE,
                   !.callsAt = calls,
                   !.onlyTrue = @ /\ m.tool_calls = ToolCall("ReturnValidationResult",
                                                             [NoArgs EXCEPT !.result = TRUE]),
                   !.pc = IF m.tool_calls = <<>> THEN "end" ELSE "tool"]]
  /\ UNCHANGED <<session, toolVars>>

\* A superstep of the tools node for a tool without driver operations:
\* ReturnValidationResult returns JSON.stringify({result, reasoning}) and
\* the loop goes on with the model.
toolTurn(s) ==
  LET r == run[s]
      tc == RequestedTool(r) IN
  /\ r.pc = "tool"
  /\ ~OutOfSteps(r)
  /\ tc.name # "GetDOMSnapshot"
  /\ run' = [run EXCEPT ![s] =
       [r EXCEPT !.steps = @ + 1, !.pc = "model",
                 !.messages = Append(@, ToolMessage(tc.name,
                     IF tc.name = "ReturnValidationResult"
                     THEN JSONstringify([result |-> tc.args.result])
                     ELSE NoContent))]]
  /\ UNCHANGED <<session, toolVars>>

\* The tools node runs GetDOMSnapshot: generateAccessibilitySnapshot on the
\* page and the registry the tool was created with; the tool hands the
\* extraTags of the call on.
snapshotToolStart(t) ==
  LET r == run[Owner[t]] IN
  /\ r.pc = "tool"
  /\ ~OutOfSteps(r)
  /\ RequestedTool(r).name = "GetDOMSnapshot"
  /\ calls = r.callsAt
  /\ SnapshotStartWith(t, RequestedTool(r).args.extraTags)

\* GetDOMSnapshot has returned the snapshot as JSON, or has thrown and the
\* runtime has made a tool message of the error.
snapshotToolReturn(s) ==
  LET r == run[s] IN
  /\ r.pc = "tool"
  /\ RequestedTool(r).name = "GetDOMSnapshot"
  /\ calls > r.callsAt
  /\ \A t \in Tasks : Owner[t] = s => task[t].kind = "idle"
  /\ run' = [run EXCEPT ![s] =
       [r EXCEPT !.steps = @ + 1, !.pc = "model", !.driver = TRUE,
                 !.messages = Append(@, ToolMessage("GetDOMSnapshot",
                     IF snap[s].raised THEN NoContent
                     ELSE JSONstringify([result |-> FALSE])))]]
  /\ UNCHANGED <<session, toolVars>>

\* The limit is reached with a superstep still to run: invoke rejects with
\* GraphRecursionError and so does test() or extract().
outOfSteps(s) ==
  LET r == run[s] IN
  /\ r.pc \in {"model", "tool"}
  /\ OutOfSteps(r)
  /\ run' = [run EXCEPT ![s] = [r EXCEPT !.pc = "idle", !.outcome = "GraphRecursionError"]]
  /\ UNCHANGED <<session, toolVars>>

\* invoke has resolved: do() logs the last message.
doReturn(s) ==
  /\ run[s].pc = "end"
  /\ run[s].op = "do"
  /\ run' = [run EXCEPT ![s] = [@ EXCEPT !.pc = "idle", !.outcome = "ok"]]
  /\ UNCHANGED <<session, toolVars>>

\* invoke has resolved: test() returns what extractValidationResult finds,
\* or throws its error.
testReturn(s) ==
  LET r == run[s]
      found == extractValidationResult(r.messages) IN
  /\ r.pc = "end"
  /\ r.op = "test"
  /\ run' = [run EXCEPT ![s] =
       [r EXCEPT !.pc = "idle",
                 !.outcome = IF found.ok THEN BoolName(found.result) ELSE found.error]]
  /\ UNCHANGED <<session, toolVars>>

\* invoke has resolved: extract() returns the validated data, or throws.
extractReturn(s) ==
  LET r == run[s]
      out == extractStructuredOutput(r.messages) IN
  /\ r.pc = "end"
  /\ r.op = "extract"
  /\ run' = [run EXCEPT ![s] =
       [r EXCEPT !.pc = "idle", !.outcome = IF out.ok THEN "ok" ELSE out.error,
                 !.value = out.data, !.issues = out.issues, !.message = out.message]]
  /\ UNCHANGED <<session, toolVars>>

InitSession ==
  /\ Init
  /\ at = [s \in Sessions |-> BlankDoc]

NextSession ==
  \/ \E s \in Sessions : init(s)
  \/ \E s \in Sessions : newPage(s)
  \/ \E s \in Sessions : getCurrentPage(s)
  \/ \E s \in Sessions : Navigate(s)
  \/ \E s \in Sessions : do(s)
  \/ \E s \in Sessions : test(s)
  \/ \E s \in Sessions : extract(s)
  \/ \E s \in Sessions : closeStart(s)
  \/ \E s \in Sessions : closeStep(s)
  \/ \E s \in Sessions : closeReturn(s)
  \/ \E s \in Sessions : modelTurn(s)
  \/ \E s \in Sessions : toolTurn(s)
  \/ \E t \in Tasks : snapshotToolStart(t)
  \/ \E t \in Tasks : SnapshotEvaluate(t)
  \/ \E t \in Tasks : SnapshotCount(t)
  \/ \E t \in Tasks : SnapshotVisible(t)
  \/ \E t \in Tasks : SnapshotBBox(t)
  \/ \E t \in Tasks : SnapshotEditable(t)
  \/ \E s \in Sessions : snapshotToolReturn(s)
  \/ \E s \in Sessions : outOfSteps(s)
  \/ \E s \in Sessions : doReturn(s)
  \/ \E s \in Sessions : testReturn(s)
  \/ \E s \in Sessions : extractReturn(s)

SpecSession == InitSession /\ [][NextSession]_vars

(***************************************************************************)
(* The life cycle of a session over more calls, with a model that answers  *)
(* every invocation at once with its final text.                           *)
(***************************************************************************)
\* A superstep of the model node in which the model answers with text and
\* no tool call: the loop ends.
modelEnds(s) ==
  LET r == run[s] IN
  /\ r.pc = "model"
  /\ ~OutOfSteps(r)
  /\ run' = [run EXCEPT ![s] =
       [r EXCEPT !.messages = Append(@, AIMessage(<<>>, NoContent, NoKwargs)),
                 !.steps = @ + 1, !.invoked = TRUE, !.callsAt = calls,
                 !.onlyTrue = FALSE, !.pc = "end"]]
  /\ UNCHANGED <<session, toolVars>>

InitLifecycle ==
  /\ elementIdCounter = 0
  /\ at = [s \in Sessions |-> BlankDoc]
  /\ registry = [s \in Sessions |-> EmptyMap]
  /\ task = [t \in Tasks |-> IdleTask]
  /\ snap = [s \in Sessions |-> NoSnap]
  /\ prev = [s \in Sessions |-> {}]
  /\ lastAct = [s \in Sessions |-> NoAct]
  /\ otherLeft = 0
  /\ pageClosed = [s \in Sessions |-> FALSE]
  /\ calls = 0
  /\ session = [s \in Sessions |-> [NoSession EXCEPT !.budget = MaxLifecycleCalls]]
  /\ run = [s \in Sessions |-> NoRun]
  /\ probe = NoProbe

NextLifecycle ==
  \/ \E s \in Sessions : init(s)
  \/ \E s \in Sessions : newPage(s)
  \/ \E s \in Sessions : do(s)
  \/ \E s \in Sessions : test(s)
  \/ \E s \in Sessions : extract(s)
  \/ \E s \in Sessions : closeStart(s)
  \/ \E s \in Sessions : closeStep(s)
  \/ \E s \in Sessions : closeReturn(s)
  \/ \E s \in Sessions : modelEnds(s)
  \/ \E s \in Sessions : doReturn(s)
  \/ \E s \in Sessions : testReturn(s)
  \/ \E s \in Sessions : extractReturn(s)

SpecLifecycle == InitLifecycle /\ [][NextLifecycle]_vars

(***************************************************************************)
(* Vocabulary of the properties                                            *)
(***************************************************************************)
\* The ids a pass generated, and those it registered.
Assigned(log) == {log[k].id : k \in DOMAIN log}
Registered(log) == {log[k].id : k \in {j \in DOMAIN log : log[j].reg}}
IsShown(entry) == entry.vis = "yes"
\* The descriptors whose visibility check answered visible, in order.
Shown(log) == SelectSeq(log, IsShown)
\* The ids of the snapshot returned before the latest generation began.
PrevIds(s) == {e.id : e \in prev[s]}
Resolved(outcome) == outcome \in {"ok", "actionFailure", "notEditable"}

C3_IdsUniqueWithinGeneration ==
  \A s \in Sessions :
    snap[s].taken =>
      /\ \A j, k \in DOMAIN snap[s].elements :
           j # k => snap[s].elements[j].id # snap[s].elements[k].id
      /\ \A j, k \in DOMAIN snap[s].log :
           (j # k /\ snap[s].log[j].reg /\ snap[s].log[k].reg)
             => snap[s].log[j].id # snap[s].log[k].id

(***************************************************************************)
(* C4: identifier exclusivity: on the document the snapshot was taken of,  *)
(* two different ids of the snapshot resolve to different elements.        *)
(***************************************************************************)
C4_DistinctIdsDistinctElements ==
  \A s \in Sessions :
    (snap[s].taken /\ ~pageClosed[s] /\ snap[s].at = at[s]) =>
      \A a, b \in IdsOf(snap[s].elements) \cap DOMAIN registry[s] :
        a # b => PageFirst(s, registry[s][a]) # PageFirst(s, registry[s][b])

C6_StaleActionNeverHitsAnotherElement ==
  \A s \in Sessions :
    \A e \in prev[s] :
      (/\ snap[s].taken
       /\ snap[s].at = at[s]
       /\ lastAct[s].arg = e.id
       /\ lastAct[s].outcome = "ok")
        => lastAct[s].target = e.el

C8_AbsentIdFailsWithoutDriverCall ==
  /\ \A s \in Sessions :
       lastAct[s].outcome # "none" =>
         /\ lastAct[s].arg \notin DOMAIN registry[s] <=> lastAct[s].outcome = "unresolvable"
         /\ lastAct[s].outcome = "unresolvable" =>
              lastAct[s].ops = {} /\ lastAct[s].target = NoNode
  /\ \A t \in Tasks :
       task[t].kind \in {"click", "input"} => task[t].arg \in DOMAIN registry[Owner[t]]

\* An input with an id the non-empty registry does not hold was rejected.
C8_Witness ==
  \E s \in Sessions :
    /\ lastAct[s].tool = "input"
    /\ lastAct[s].outcome = "unresolvable"
    /\ registry[s] # EmptyMap

(***************************************************************************)
(* C9: editable gate: when the editability check of InputByElementId does  *)
(* not answer editable (it answers no, or fails), the call ends as not     *)
(* editable and fill is not called; fill is called only after the check    *)
(* answered editable.                                                      *)
(***************************************************************************)
C9_EditableGate ==
  /\ \A s \in Sessions :
       (lastAct[s].tool = "input" /\ Resolved(lastAct[s].outcome)) =>
         /\ lastAct[s].checked # "yes" =>
              lastAct[s].outcome = "notEditable" /\ "fill" \notin lastAct[s].ops
         /\ "fill" \in lastAct[s].ops => lastAct[s].checked = "yes"
  /\ \A t \in Tasks : "fill" \in task[t].ops => task[t].checked = "yes"

\* An input was refused because its editability check failed.
C9_Witness ==
  \E s \in Sessions : lastAct[s].outcome = "notEditable" /\ lastAct[s].checked = "error"

(***************************************************************************)
(* C10: visibility filtering: a returned snapshot holds, in order, exactly *)
(* the descriptors whose visibility check answered visible (a failed check *)
(* is not visible); each of its elements has visible = true and was not a  *)
(* hidden element.                                                         *)
(***************************************************************************)
C10_VisibilityFiltering ==
  \A s \in Sessions :
    snap[s].taken =>
      /\ Len(snap[s].elements) = Len(Shown(snap[s].log))
      /\ \A k \in DOMAIN snap[s].elements :
           /\ snap[s].elements[k].id = Shown(snap[s].log)[k].id
           /\ snap[s].elements[k].el = Shown(snap[s].log)[k].el
           /\ snap[s].elements[k].visible
           /\ snap[s].elements[k].el # NoNode
           /\ ~Hidden(snap[s].elements[k].el)

\* A returned snapshot of a pass that dropped a hidden element and kept a
\* visible one.
C10_Witness ==
  \E s \in Sessions :
    /\ snap[s].taken
    /\ \E k \in DOMAIN snap[s].log : snap[s].log[k].vis = "no"
    /\ snap[s].elements # <<>>
(***************************************************************************)
(* C11: a snapshot generation call always completes by returning a         *)
(* snapshot (possibly without elements) and never raises.                  *)
(***************************************************************************)
C11_GenerationNeverRaises == \A s \in Sessions : ~snap[s].raised

(***************************************************************************)
(* Vocabulary of the session properties                                    *)
(***************************************************************************)
NeedsPage == {"do", "test", "extract", "getCurrentPage"}
PhaseRank(ph) ==
  CASE ph = "uninitialized" -> 0 [] ph = "ready" -> 1 [] ph = "bound" -> 2 [] OTHER -> 3
ReleaseRank(kind) == CASE kind = "page" -> 0 [] kind = "context" -> 1 [] OTHER -> 2
\* What the latest close() has closed of one kind.
Released(sess, kind) ==
  {sess.released[k].id : k \in {j \in DOMAIN sess.released : sess.released[j].kind = kind}}

(* C12: do, test, extract and getCurrentPage called on a session without a current page (before init, or after close) fail for that call with the error of an uninitialized session, without a model invocation and without a driver operation. *)
C12_UninitializedSessionFails ==
  \A s \in Sessions :
    LET r == run[s] IN
    (r.op \in NeedsPage /\ r.phase \in {"uninitialized", "closed"})
      => /\ r.pc = "idle"
         /\ r.outcome = "Agent is not initialized"
         /\ ~r.invoked
         /\ ~r.driver
         /\ calls = r.calls0
         /\ r.messages = <<>>
C12_Witness ==
  \E s \in Sessions :
    /\ run[s].op = "test"
    /\ run[s].phase = "closed"
    /\ run[s].outcome = "Agent is not initialized"
    /\ session[s].launched > 0

(* C13: a session that has been initialized never moves back in the order uninitialized, browser-ready, conversation bound, closed, whatever calls are made. *)
C13_StatesOnlyInOrder ==
  [][\A s \in Sessions :
       session[s].launched > 0
         => PhaseRank(Phase(session'[s])) >= PhaseRank(Phase(session[s]))]_vars

(* C14: close() releases in nesting order: a page is open only while its context is, a context only while its browser is; close() closes pages before the context and the context before the browser; and once it has returned, every page of the context it found, those made by newPage included, has been closed by it, and so have the context and the browser. *)
C14_CloseReleasesInNestingOrder ==
  \A s \in Sessions :
    LET sess == session[s] IN
    /\ \A p \in DOMAIN sess.pages :
         sess.pages[p].open => sess.pages[p].context \in sess.openContexts
    /\ sess.openContexts \subseteq sess.openBrowsers
    /\ \A i, j \in DOMAIN sess.released :
         i < j => ReleaseRank(sess.released[i].kind) <= ReleaseRank(sess.released[j].kind)
    /\ (run[s].op = "close" /\ run[s].pc = "idle" /\ run[s].phase \in {"ready", "bound"})
         => /\ Released(sess, "browser") = {sess.launched}
            /\ Released(sess, "context") = {sess.launched}
            /\ Released(sess, "page") =
                 {p \in DOMAIN sess.pages : sess.pages[p].context = sess.launched}
            /\ sess.launched \notin sess.openBrowsers
C14_Witness ==
  \E s \in Sessions :
    LET sess == session[s] IN
    /\ run[s].op = "close"
    /\ run[s].pc = "idle"
    /\ Len(sess.released) = 4
    /\ \E p \in Released(sess, "page") : sess.pages[p].by = "newPage"
    /\ sess.released[4].kind = "browser"

(* C15: after close() has returned, the registry of the session holds no entry. *)
C15_RegistryEmptyAfterClose ==
  \A s \in Sessions :
    (run[s].op = "close" /\ run[s].pc = "idle") => registry[s] = EmptyMap

(***************************************************************************)
(* Vocabulary of the conversation properties                               *)
(***************************************************************************)
\* A call of test() or extract() that has ended.
Ended(r, op) == r.op = op /\ r.pc = "idle" /\ r.outcome # "Agent is not initialized"
ResultAt(messages) == {i \in DOMAIN messages : IsValidationResult(messages[i])}
CallAt(messages) == {i \in DOMAIN messages : ValidationCalls(messages[i]) # <<>>}
Latest(I) == CHOOSE i \in I : \A j \in I : j <= i
\* The data the last message carries, and what the caller's schema asks.
Carried(m) ==
  (IF m.content.form \in {"object", "json", "blocks"} THEN {m.content.data} ELSE {})
    \cup (IF m.structured_output.present THEN {m.structured_output.data} ELSE {})
Valid(v) == v.kind = "object" /\ v.fields.name = "str" /\ v.fields.price = "num"

(* C16: a test() whose conversation holds no ReturnValidationResult tool result and no ReturnValidationResult tool call ends with an error (result not found, or the error of the runtime) and never with a boolean. *)
C16_MissingResultIsAnError ==
  \A s \in Sessions :
    LET r == run[s] IN
    (Ended(r, "test") /\ ResultAt(r.messages) = {} /\ CallAt(r.messages) = {})
      => r.outcome \in {"Validation result not found in agent response",
                        "GraphRecursionError"}
C16_Witness ==
  \E s \in Sessions :
    LET r == run[s] IN
    /\ Ended(r, "test")
    /\ Len(r.messages) = 4
    /\ ResultAt(r.messages) = {} /\ CallAt(r.messages) = {}
    /\ r.outcome = "Validation result not found in agent response"

(* C17: the boolean test() returns is the result field of the most recent ReturnValidationResult tool-result message of the conversation, or without any such message that of the most recent ReturnValidationResult tool call. *)
C17_AnswerIsMostRecentResult ==
  \A s \in Sessions :
    LET r == run[s]
        msgs == r.messages IN
    (Ended(r, "test") /\ r.outcome \in {"true", "false"})
      => IF ResultAt(msgs) # {}
         THEN r.outcome = BoolName(msgs[Latest(ResultAt(msgs))].content.data.result)
         ELSE /\ CallAt(msgs) # {}
              /\ r.outcome = BoolName(msgs[Latest(CallAt(msgs))].tool_calls[1].args.result)
C17_Witness ==
  \E s \in Sessions :
    LET r == run[s]
        msgs == r.messages IN
    /\ Ended(r, "test")
    /\ r.outcome = "true"
    /\ \E i \in ResultAt(msgs) : ~msgs[i].content.data.result

(* C18: the agent loop of test() never runs more than 10 supersteps and that of extract() never more than 15; a call that ends on the ceiling ends with the error of the runtime at exactly that count. *)
C18_LoopStaysWithinCeiling ==
  \A s \in Sessions :
    LET r == run[s] IN
    /\ r.op = "test" => r.steps <= 10 /\ Len(r.messages) <= 11
    /\ r.op = "extract" => r.steps <= 15 /\ Len(r.messages) <= 16
    /\ r.outcome = "GraphRecursionError"
         => r.pc = "idle" /\ r.steps = (IF r.op = "test" THEN 10 ELSE 15)
C18_Witness ==
  \E s \in Sessions :
    /\ run[s].op = "extract"
    /\ run[s].steps = 15
    /\ run[s].outcome = "GraphRecursionError"

(* C19: a test() in which every answer of the model was the ReturnValidationResult call with result true returns true. *)
C19_AlwaysTrueModelReturnsTrue ==
  \A s \in Sessions :
    LET r == run[s] IN
    (Ended(r, "test") /\ r.invoked /\ r.onlyTrue) => r.outcome = "true"

(* C20: what extract() returns satisfies the caller's schema, and extract() returns nothing when the data the model answered with does not satisfy it. *)
C20_ExtractReturnsValidatedData ==
  \A s \in Sessions :
    LET r == run[s]
        last == r.messages[Len(r.messages)] IN
    (Ended(r, "extract") /\ r.outcome = "ok")
      => /\ Valid(r.value)
         /\ Carried(last) # {}
         /\ \A d \in Carried(last) : Valid(d)
C20_Witness ==
  \E s \in Sessions :
    LET r == run[s]
        last == r.messages[Len(r.messages)] IN
    /\ Ended(r, "extract")
    /\ r.outcome = "Extracted data validation failed"
    /\ \E d \in Carried(last) : d.kind = "object" /\ d.fields.price = "absent"
    /\ [path |-> "price", message |-> "Required"] \in r.issues

\* What the caller expects to read for an answer d that fails the schema.
Reason(d, f) == IF d.fields[f] = "absent" THEN "Required" ELSE "Expected " \o SchemaType[f]
Offending(d) == {f \in {"name", "price"} : d.fields[f] # SchemaType[f]}
Listed(d) ==
  CASE Offending(d) = {"name", "price"} ->
         "name: " \o Reason(d, "name") \o ", price: " \o Reason(d, "price")
    [] Offending(d) = {"name"} -> "name: " \o Reason(d, "name")
    [] OTHER -> "price: " \o Reason(d, "price")
(* C21: when the data the model answered with fails the schema, the error of extract() is the validation failure whose message lists each offending field path with its reason, joined by commas in schema order; the failures of a last message that is no model answer or cannot be parsed are other errors and list no field. *)
C21_ValidationFailureListsEveryField ==
  \A s \in Sessions :
    LET r == run[s]
        last == r.messages[Len(r.messages)] IN
    (Ended(r, "extract") /\ r.outcome # "GraphRecursionError")
      => /\ \A d \in Carried(last) :
              (d.kind = "object" /\ Offending(d) # {})
                => /\ r.outcome = "Extracted data validation failed"
                   /\ r.message = "Extracted data validation failed: " \o Listed(d)
         /\ Carried(last) = {}
              => /\ r.outcome = "Failed to extract structured output"
                 /\ r.issues = {}
                 /\ r.message = "Failed to extract structured output: "
                       \o "Could not parse structured output from response"
C21_Witness ==
  \E s \in Sessions :
    LET r == run[s] IN
    /\ Ended(r, "extract")
    /\ r.message =
         "Extracted data validation failed: name: Expected str, price: Required"

(***************************************************************************)
(* C22: no mutable state is shared across sessions: while a generation     *)
(* pass of a session runs, no other session's pass changes the identifiers *)
(* it assigns.  The counter the pass draws its ids from then holds what    *)
(* this pass left there: zero before page.evaluate has resolved, afterwards*)
(* the number of descriptors the pass has entered; and the descriptor      *)
(* entered as the k-th was given the suffix k - 1.                         *)
(***************************************************************************)
C22_NoStateSharedAcrossSessions ==
  \A t \in Tasks :
    task[t].kind = "snapshot" =>
      /\ elementIdCounter = task[t].i
      /\ \A k \in DOMAIN task[t].log : task[t].log[k].id[2] = k - 1

\* The roles, the elements (which stand for their names) and the visible
\* states of a list of snapshot elements, in order.
Described(elements) ==
  [k \in DOMAIN elements |->
     [role |-> elements[k].role, el |-> elements[k].el, visible |-> elements[k].visible]]
\* The ids of a list of snapshot elements, in order.
IdSeq(elements) == [k \in DOMAIN elements |-> elements[k].id]
(***************************************************************************)
(* C23: snapshot idempotence: a generation that returns while the page     *)
(* still shows the document the snapshot before it was taken of returns    *)
(* the same sequence of roles, names and visible states as that snapshot,  *)
(* and the same ids.                                                       *)
(***************************************************************************)
C23_SnapshotIdempotence ==
  \A s \in Sessions :
    (snap[s].taken /\ snap[s].before.taken /\ ~pageClosed[s]) =>
      /\ Described(snap[s].elements) = Described(snap[s].before.elements)
      /\ IdSeq(snap[s].elements) = IdSeq(snap[s].before.elements)

\* The visible elements of document d whose tag is one of tags.
VisibleOfTags(d, tags) ==
  {Doms[d][p] : p \in {q \in DOMAIN Doms[d] : TagOf(Doms[d][q]) \in tags /\ ~Hidden(Doms[d][q])}}
(***************************************************************************)
(* C24: when GetDOMSnapshot is called with extra tag names, the visible    *)
(* elements of those tags appear in the returned snapshot: a snapshot      *)
(* returned while the page shows the document it was taken of has an       *)
(* element for every visible element of that document with such a tag.     *)
(***************************************************************************)
C24_ExtraTagsWidenSelection ==
  \A s \in Sessions :
    (snap[s].taken /\ ~pageClosed[s] /\ snap[s].at = at[s]) =>
      \A n \in VisibleOfTags(snap[s].at, snap[s].extraTags) :
        \E k \in DOMAIN snap[s].elements : snap[s].elements[k].el = n

(***************************************************************************)
(* C25: do, test and extract give their agent one tool set, that of        *)
(* createTools, and only test() adds ReturnValidationResult: the model is  *)
(* given that tool in a test() conversation only, and every tool it calls  *)
(* is one it was given.                                                    *)
(***************************************************************************)
C25_OneToolSetValidationOnlyInTest ==
  \A s \in Sessions :
    LET r == run[s] IN
    r.invoked =>
      /\ r.tools \ {"ReturnValidationResult"} = createTools
      /\ "ReturnValidationResult" \in r.tools <=> r.op = "test"
      /\ \A k \in DOMAIN r.messages :
           \A j \in DOMAIN r.messages[k].tool_calls :
             r.messages[k].tool_calls[j].name \in r.tools

\* The model of an extract() conversation has called a tool, and a test()
\* conversation is not the only kind that ran: the agent of extract() was
\* not given ReturnValidationResult.
C25_Witness ==
  \E s \in Sessions :
    LET r == run[s] IN
    /\ r.op = "extract"
    /\ r.pc = "idle"
    /\ "ReturnValidationResult" \notin r.tools
    /\ \E k \in DOMAIN r.messages :
         r.messages[k].type = "ai" /\ r.messages[k].tool_calls # <<>>

(***************************************************************************)
(* C26: a descriptor whose XPath resolved to zero elements during          *)
(* enrichment is dropped with no snapshot entry and no registry entry:     *)
(* after the pass neither the registry nor the snapshot holds the id that  *)
(* descriptor consumed.                                                    *)
(***************************************************************************)
C26_ZeroMatchLeavesNoEntry ==
  \A s \in Sessions :
    snap[s].taken =>
      \A k \in DOMAIN snap[s].log :
        ~snap[s].log[k].reg =>
          /\ snap[s].log[k].id \notin DOMAIN registry[s]
          /\ snap[s].log[k].id \notin IdsOf(snap[s].elements)

(***************************************************************************)
(* C27: the registry entry of a matched element is made before its         *)
(* visibility is computed and stays when the element is not visible: after *)
(* a pass the id of every matched but hidden element resolves in the       *)
(* registry and is the id of no element of the snapshot, and a click or    *)
(* input tool given that id finds its locator.                             *)
(***************************************************************************)
C27_HiddenElementKeepsEntry ==
  \A s \in Sessions :
    snap[s].taken =>
      \A k \in DOMAIN snap[s].log :
        (snap[s].log[k].reg /\ snap[s].log[k].vis # "yes") =>
          /\ snap[s].log[k].id \in DOMAIN registry[s]
          /\ snap[s].log[k].id \notin IdsOf(snap[s].elements)
          /\ lastAct[s].arg = snap[s].log[k].id => Resolved(lastAct[s].outcome)

(***************************************************************************)
(* C28: in one generation pass the descriptor at 0-based position k of the *)
(* extractor's output is assigned the id role_k, dropped descriptors       *)
(* included, so the ids of the returned snapshot have strictly increasing  *)
(* counter suffixes.                                                       *)
(***************************************************************************)
C28_IdIsRoleAndPosition ==
  \A s \in Sessions :
    snap[s].taken =>
      /\ \A k \in DOMAIN snap[s].log :
           snap[s].log[k].id = <<Extract(Doms[snap[s].at])[k].role, k - 1>>
      /\ \A j, k \in DOMAIN snap[s].elements :
           j < k => snap[s].elements[j].id[2] < snap[s].elements[k].id[2]

\* The positions, in the extractor's output, of the descriptors a pass did
\* not drop, in order.
KeptPositions(log) ==
  SelectSeq([k \in DOMAIN log |-> k], LAMBDA k : log[k].vis = "yes")
(***************************************************************************)
(* C29: the elements of a returned snapshot appear in descriptor order:    *)
(* the list is the extractor's document-order list with the dropped        *)
(* descriptors removed and nothing reordered, each element with the role   *)
(* of its descriptor.                                                      *)
(***************************************************************************)
C29_ElementsInDescriptorOrder ==
  \A s \in Sessions :
    snap[s].taken =>
      /\ [k \in DOMAIN snap[s].elements |-> snap[s].elements[k].pos]
           = KeptPositions(snap[s].log)
      /\ \A k \in DOMAIN snap[s].elements :
           snap[s].elements[k].role
             = Extract(Doms[snap[s].at])[snap[s].elements[k].pos].role

\* A returned snapshot with two elements, of different elements of the page.
C29_Witness ==
  \E s \in Sessions :
    /\ snap[s].taken
    /\ Len(snap[s].elements) = 2
    /\ snap[s].elements[1].el # snap[s].elements[2].el

\* The messages a rejected driver click or fill carries.
DriverMessages ==
  {"Timeout 5000ms exceeded", "Target page, context or browser has been closed"}
\* What the caller reads when tool failed on id for cause.
Surfaced(tool, id, cause) ==
  (IF tool = "click" THEN "Failed to click on element "
   ELSE "Failed to input text into element ")
    \o id[1] \o "_" \o ToString(id[2]) \o ": " \o cause
(***************************************************************************)
(* C30: ClickByElementId and InputByElementId call the driver's click or   *)
(* fill at most once per invocation; a click or fill that times out or     *)
(* throws is not called again, and the tool fails with an error that names *)
(* the id it was given and carries the driver's message.                   *)
(***************************************************************************)
C30_NoRetryFailureNamesId ==
  /\ \A t \in Tasks : task[t].attempts <= 1
  /\ \A s \in Sessions :
       /\ lastAct[s].attempts <= 1
       /\ lastAct[s].outcome = "actionFailure" =>
            /\ lastAct[s].attempts = 1
            /\ \E cause \in DriverMessages :
                 lastAct[s].error = Surfaced(lastAct[s].tool, lastAct[s].arg, cause)

\* A click on an open page has timed out, and the tool has failed.
C30_Witness ==
  \E s \in Sessions :
    /\ lastAct[s].tool = "click"
    /\ lastAct[s].outcome = "actionFailure"
    /\ lastAct[s].attempts = 1
    /\ lastAct[s].error = "Failed to click on element button_0: Timeout 5000ms exceeded"

\* A step of a snapshot generation pass: a tool invocation that is or
\* becomes a pass has moved.
SnapshotStep ==
  \E t \in ToolSlots :
    /\ task'[t] # task[t]
    /\ task[t].kind = "snapshot" \/ task'[t].kind = "snapshot"
(***************************************************************************)
(* C31: only snapshot generation writes the registry: every step of        *)
(* ClickByElementId, InputByElementId, NavigateToURL, Wait and             *)
(* PrintToConsole, successful or failed, leaves it as it is, so an id      *)
(* issued before a navigation resolves to the same locator afterwards.     *)
(***************************************************************************)
C31_OnlyGenerationWritesRegistry ==
  [][~SnapshotStep => registry' = registry]_vars

\* A navigation has succeeded after the page.evaluate of the latest
\* snapshot, and every id of that snapshot still resolves.
C31_Witness ==
  \E s \in Sessions :
    /\ snap[s].taken
    /\ snap[s].elements # <<>>
    /\ lastAct[s].tool = "navigate"
    /\ lastAct[s].outcome = "ok"
    /\ snap[s].at # at[s]
    /\ IdsOf(snap[s].elements) \subseteq DOMAIN registry[s]

\* The snapshot generation passes of session s that are in flight.
PassesInFlight(s) == {t \in ToolSlots : Owner[t] = s /\ task[t].kind = "snapshot"}
(***************************************************************************)
(* C32: no two snapshot generation passes are in flight at the same time   *)
(* against the same registry, also when the runtime issues several         *)
(* GetDOMSnapshot calls in one turn.                                       *)
(***************************************************************************)
C32_OnePassAtATime ==
  \A s \in Sessions : Cardinality(PassesInFlight(s)) <= 1

\* C33: XPath round-trip.  For every element without an id attribute, the
\* path getXPath builds from the root (same-tag preceding siblings counted at
\* each level, the suffix left out for the first such sibling), resolved by
\* the driver against the document and reduced to its first match, is that
\* same element.
C33_XPathRoundTrip ==
  (probe.fn = "getXPath" /\ probe.pc = "done" /\ ElementAt(probe.doc, probe.el).id = "")
    => probe.found = probe.el

\* A nested second button whose path also selects a button of the other
\* container: /html/body/div/button[2].
C33_Witness ==
  /\ probe.fn = "getXPath" /\ probe.pc = "done"
  /\ ElementAt(probe.doc, probe.el).id = ""
  /\ Len(probe.el) = 2
  /\ probe.xpath.kind = "path"
  /\ probe.xpath.steps[1].position = 0
  /\ probe.xpath.steps[2].position = 2
  /\ probe.count >= 2
  /\ probe.found = probe.el

\* The containment test of the claim on a box that was obtained.
BoxInsideViewport(box) ==
  /\ box.x >= 0
  /\ box.y >= 0
  /\ box.x + box.width <= ViewportWidth
  /\ box.y + box.height <= ViewportHeight

\* C35: inViewport is true exactly when a bounding box was obtained and the
\* box lies entirely inside the viewport (x >= 0, y >= 0, x + width <=
\* viewport width, y + height <= viewport height); it is false when the
\* bounding box is null.
C35_InViewportIffBoxInside ==
  (probe.fn = "isInViewport" /\ probe.pc = "done")
    => /\ probe.inViewport <=> (~probe.box.null /\ BoxInsideViewport(probe.box))
       /\ probe.box.null => ~probe.inViewport

\* A box that touches the right and the bottom edge of the viewport.
C35_Witness ==
  /\ probe.fn = "isInViewport" /\ probe.pc = "done"
  /\ ~probe.box.null
  /\ probe.box.x + probe.box.width = ViewportWidth
  /\ probe.box.y + probe.box.height = ViewportHeight
  /\ probe.inViewport

\* The tag/type table of the claim; "" where the claim names no role.
ClaimedRole(tagName, type) ==
  IF tagName = "button" THEN "button"
  ELSE IF tagName = "a" THEN "link"
  ELSE IF tagName = "input" /\ type \in {"text", "email", "password"} THEN "textbox"
  ELSE IF tagName = "input" /\ type = "checkbox" THEN "checkbox"
  ELSE IF tagName = "input" /\ type = "radio" THEN "radio"
  ELSE IF tagName = "input" /\ type = "search" THEN "searchbox"
  ELSE IF tagName = "textarea" THEN "textbox"
  ELSE IF tagName = "select" THEN "combobox"
  ELSE ""

\* C36: the role of an element is its explicit role attribute when present,
\* otherwise the tag/type mapping button->button, a->link, input of type
\* text, email or password->textbox, checkbox->checkbox, radio->radio,
\* search->searchbox, textarea->textbox, select->combobox; the role is the
\* prefix of the element's id.
C36_RoleFromAttributeOrTag ==
  (probe.fn = "inferRole" /\ probe.pc = "done")
    => /\ probe.explicitRole # "" => probe.role = probe.explicitRole
       /\ (probe.explicitRole = "" /\ ClaimedRole(probe.tagName, probe.type) # "")
            => probe.role = ClaimedRole(probe.tagName, probe.type)
       /\ probe.id[1] = probe.role

\* A button element with role="tab": the attribute wins over the tag.
C36_Witness ==
  /\ probe.fn = "inferRole" /\ probe.pc = "done"
  /\ probe.tagName = "button"
  /\ probe.explicitRole = "tab"
  /\ probe.role = "tab"
  /\ probe.id = <<"tab", 0>>

\* C34: the registry behaves as a single map from id to handle.  After
\* set(id, h), get(id) returns h and has(id) is true; get of an id never set
\* since the last clear returns absent; clear() empties it; size() is the
\* number of distinct ids and allIds() lists exactly those ids; the map
\* getMap() hands to snapshot generation is the same mapping that get, has
\* and size read (what is written through it is what they return).
C34_RegistryIsOneMap ==
  \A s \in Sessions :
    /\ probe.fn \in {"set", "map.set"}
         => /\ RegistryGet(registry[s], probe.id) = probe.handle
            /\ RegistryHas(registry[s], probe.id)
    /\ probe.fn = "get" => (probe.id \notin probe.live => probe.got = NoHandle)
    /\ probe.fn = "get" => (probe.id \in probe.live => probe.got \in ProbeHandles)
    /\ probe.fn = "has" => (probe.has <=> probe.id \in probe.live)
    /\ probe.fn \in {"clear", "map.clear"}
         => /\ RegistrySize(registry[s]) = 0
            /\ \A id \in ProbeIds : ~RegistryHas(registry[s], id)
    /\ probe.fn = "size" => probe.size = Cardinality(probe.live)
    /\ probe.fn = "getAllIds" => probe.ids = probe.live
    /\ probe.fn = "getMap" => probe.ref = "locatorMap"

\* Two ids set, getMap called, and a get that returns the handle of an id
\* that was set.
C34_Witness ==
  \E s \in Sessions :
    /\ probe.fn = "get"
    /\ probe.ref = "locatorMap"
    /\ Cardinality(probe.live) = 2
    /\ probe.id \in probe.live
    /\ probe.got = registry[s][probe.id]
    /\ probe.got # NoHandle

\* C39: after close() has returned, every browser and every context this
\* session launched through init() has been closed, also when init() was
\* called more than once before close().
C39_CloseReleasesEveryLaunch ==
  \A s \in Sessions :
    (run[s].op = "close" /\ run[s].pc = "idle")
      => session[s].openBrowsers = {} /\ session[s].openContexts = {}

\* C40: close() is idempotent.  Called on a session that was never
\* initialized, or a second time after a close(), it performs no driver
\* operation, does not throw and leaves the session without browser,
\* context and current page.
C40_CloseIdempotent ==
  \A s \in Sessions :
    (run[s].op = "close" /\ run[s].phase \in {"uninitialized", "closed"})
      => /\ session[s].released = <<>>
         /\ session[s].browser = 0
         /\ session[s].context = 0
         /\ session[s].currentPageContext = 0
         /\ run[s].pc = "idle" => (run[s].outcome = "ok" /\ ~run[s].driver)

\* init(), close() and a second close() that has returned.
C40_Witness ==
  \E s \in Sessions :
    /\ run[s].op = "close" /\ run[s].pc = "idle" /\ run[s].phase = "closed"
    /\ session[s].launched = 1
    /\ session[s].n = 3
    /\ run[s].outcome = "ok"

\* The calls that run an agent loop with tools.
AgentCalls == {"do", "test", "extract"}

\* C37: the do() conversation is bound exactly once per session, on the
\* first do() call.  The binding changes only from unbound to bound and only
\* in the step of a do() call; a later do() call invokes the agent bound
\* then, with its tools; test() and extract() run an agent of their own
\* (tools plus ReturnValidationResult for test, created on the current
\* page) and leave the binding as it is.
C37_DoBoundOnce ==
  [][\A s \in Sessions :
       /\ session'[s].agent # session[s].agent
            => /\ session[s].agent = 0
               /\ run'[s].op = "do" /\ run'[s].pc = "model"
               /\ session'[s].n = session[s].n + 1
       /\ (run'[s].op = "do" /\ run'[s].pc = "model") => run'[s].page = session'[s].agent
       /\ (run'[s].op \in {"test", "extract"} /\ run'[s].pc = "model" /\ run[s].pc = "idle")
            => /\ session'[s].agent = session[s].agent
               /\ run'[s].page = session[s].currentPageContext]_vars

\* A second do() on a session bound by an earlier do(), after a newPage()
\* in between: it runs the agent that the first do() bound.
C37_Witness ==
  \E s \in Sessions :
    /\ run[s].op = "do" /\ run[s].pc = "model" /\ run[s].phase = "bound"
    /\ session[s].agent = 1
    /\ session[s].currentPageContext = 2
    /\ run[s].page = 1

\* C38: every do(), test() and extract() call operates its tools on the
\* session's current page, the page getCurrentPage() returns at the time of
\* the call, also after newPage() and after close() followed by a new
\* init().
C38_ToolsOnCurrentPage ==
  \A s \in Sessions :
    (run[s].op \in AgentCalls /\ run[s].pc = "model")
      => run[s].page = session[s].currentPageContext

====
